---- MODULE Spec2Model ----
(***************************************************************************)
(* Dependency-graph scheduler of the typed-builder repository:             *)
(*   - DependencyTaskQueue (queue.ts)                                       *)
(*   - Router (packages/router/src/router.ts)                               *)
(*   - Agent.executePlan / processTask / resolveParams (agent.ts)           *)
(*   - Supervisor and POST /tasks (packages/router/src/supervisor.ts,       *)
(*     index.ts)                                                            *)
(*   - Builder (src/index.ts)                                               *)
(*   - ShellWorker (packages/shell-worker/src/index.ts)                     *)
(* One module, several specifications over one variable tuple:             *)
(*   QSpec       the queue alone, driven by arbitrary calls                 *)
(*   Spec        the Router with its queue, endpoints and result listener   *)
(*   SilentSpec  the Router with a worker that never answers                *)
(*   ServerSpec  the Router driven by socket connections (Supervisor)       *)
(*   ApiSpec     the Router driven by POST /tasks requests                  *)
(*   PlanSpec    Agent.processTask / executePlan on one plan                *)
(*   LateSpec    PlanSpec with a stream that also emits after subscription  *)
(*   ConnSpec    ServerSpec with repeated register-worker messages          *)
(*   BuilderSpec one chain of Builder calls and its terminal calls          *)
(*   ChainSpec   the builder objects of several chains                      *)
(*   WorkerSpec  the shell worker and its concurrent commands               *)
(***************************************************************************)
EXTENDS Integers, Sequences, FiniteSets, TLC

(***************************************************************************)
(* Bounds and input pools                                                   *)
(***************************************************************************)
\* longest task list the queue-only specification builds
MaxQueue == 3
\* number of enqueueTask calls in one Router run
MaxEnq == 3
\* number of result messages that answer no task sent on that endpoint
MaxSpurious == 1

Ids == {"t1", "t2", "t3"}
Keys == {"shell", "llm"}

\* Task of task.ts; "dependencies" is the SubTask field the queue reads
\* (absent and empty both count as satisfied, queue.ts:61-62)
Task(id, ex, deps, params) ==
  [id |-> id, executor |-> ex, dependencies |-> deps, params |-> params]

\* params is either a plain value or a resolver function (task.ts SubTask.params);
\* "resolved" is the value a resolver returns for the argument list args
Params(kind, args) == [kind |-> kind, args |-> args]

Plain == Params("plain", <<>>)

Fn == Params("fn", <<>>)

\* a resolver that reads a property of each argument, such as
\* (r) => ({command: r.trim()}): it throws a TypeError on an undefined argument
Strict == Params("strict", <<>>)

\* typeof params === 'function'
isFunction(params) == params.kind \in {"fn", "strict"}

\* "undefined" as returned by dequeue / peek / find
NoTask == Task("", "", <<>>, Params("", <<>>))

Range(s) == {s[i] : i \in 1..Len(s)}

(***************************************************************************)
(* DependencyTaskQueue, queue.ts:49-101, as operators on a queue value     *)
(***************************************************************************)
NewQueue == [tasks |-> <<>>, completed |-> {}, processing |-> {}]

\* the predicate of findIndex / find, queue.ts:60-63 and 73-76
depsSatisfiedAny(task, completed) ==
  \E i \in 1..Len(task.dependencies) : task.dependencies[i] \in completed

depsSatisfied(task, completed) ==
  \A i \in 1..Len(task.dependencies) : task.dependencies[i] \in completed

\* Array.prototype.findIndex with that predicate; 0 stands for -1
findIndexFirst(q) == IF Len(q.tasks) > 0 THEN 1 ELSE 0

findIndexLast(q) ==
  IF \E i \in 1..Len(q.tasks) : depsSatisfied(q.tasks[i], q.completed)
  THEN CHOOSE i \in 1..Len(q.tasks) :
         /\ depsSatisfied(q.tasks[i], q.completed)
         /\ \A j \in (i + 1)..Len(q.tasks) : ~depsSatisfied(q.tasks[j], q.completed)
  ELSE 0

findIndex(q) ==
  IF \E i \in 1..Len(q.tasks) : depsSatisfied(q.tasks[i], q.completed)
  THEN CHOOSE i \in 1..Len(q.tasks) :
         /\ depsSatisfied(q.tasks[i], q.completed)
         /\ \A j \in 1..(i - 1) : ~depsSatisfied(q.tasks[j], q.completed)
  ELSE 0

\* Array.prototype.splice(i, 1)
splice(s, i) == [j \in 1..(Len(s) - 1) |-> IF j < i THEN s[j] ELSE s[j + 1]]

enqueueChecked(q, task) ==
  IF task.id \in Range(task.dependencies) THEN q
  ELSE [q EXCEPT !.tasks = Append(@, task)]

enqueueOnce(q, task) ==
  IF task.id \in q.processing THEN q
  ELSE [q EXCEPT !.tasks = Append(@, task)]

enqueue(q, task) == [q EXCEPT !.tasks = Append(@, task)]

\* dequeue returns the task (or NoTask) and the queue it leaves
dequeueKeep(q) ==
  LET i == findIndex(q) IN
  IF i = 0
  THEN [ret |-> NoTask, q |-> q]
  ELSE [ret |-> q.tasks[i],
        q |-> [q EXCEPT !.processing = @ \cup {q.tasks[i].id}]]

dequeue(q) ==
  LET i == findIndex(q) IN
  IF i = 0
  THEN [ret |-> NoTask, q |-> q]
  ELSE [ret |-> q.tasks[i],
        q |-> [q EXCEPT !.tasks = splice(@, i),
                        !.processing = @ \cup {q.tasks[i].id}]]

peekHead(q) == IF Len(q.tasks) = 0 THEN NoTask ELSE q.tasks[1]

peek(q) ==
  LET i == findIndex(q) IN IF i = 0 THEN NoTask ELSE q.tasks[i]

size(q) == Len(q.tasks)

isEmpty(q) == Len(q.tasks) = 0

clearTasksOnly(q) == [q EXCEPT !.tasks = <<>>]

clear(q) == NewQueue

markCompletedToggle(q, taskId) ==
  [q EXCEPT !.completed = IF taskId \in @ THEN @ \ {taskId} ELSE @ \cup {taskId},
            !.processing = @ \ {taskId}]

markCompleted(q, taskId) ==
  [q EXCEPT !.completed = @ \cup {taskId}, !.processing = @ \ {taskId}]

isProcessing(q, taskId) == taskId \in q.processing

(***************************************************************************)
(* Agent.resolveParams, agent.ts:129-140                                    *)
(***************************************************************************)
\* result?.result.data: the data of a success, undefined for a failure or
\* for an id with no recorded result
dataOf(result) == IF result.ok THEN result.val ELSE "undefined"

\* results is the taskResults map the dependencies are looked up in
resolveParamsReversed(subtask, results) ==
  IF ~isFunction(subtask.params)
  THEN subtask.params
  ELSE Params("resolved",
              [i \in 1..Len(subtask.dependencies) |->
                 dataOf(results[subtask.dependencies[
                   Len(subtask.dependencies) + 1 - i]])])

\* subtask.params(...depResults) throws, agent.ts:139
resolveThrows(subtask, results) ==
  /\ subtask.params.kind = "strict"
  /\ \E i \in 1..Len(subtask.dependencies) :
       dataOf(results[subtask.dependencies[i]]) = "undefined"

resolveParams(subtask, results) ==
  IF ~isFunction(subtask.params)
  THEN subtask.params
  ELSE Params("resolved",
              [i \in 1..Len(subtask.dependencies) |->
                 dataOf(results[subtask.dependencies[i]])])

(***************************************************************************)
(* State                                                                    *)
(***************************************************************************)
VARIABLES
  rq,            \* QSpec: the DependencyTaskQueue under test
  qlast,         \* QSpec: the last call made on rq and what it returned
  qmarked,       \* QSpec: ids markCompleted was ever called with
  qsince,        \* QSpec: ids markCompleted was called with since the last clear
  taskQueue,     \* Router.taskQueue
  agents,        \* Router.agents: capability key -> endpoint
  taskResults,   \* Router.taskResults: id -> TaskResult
  resultEmitter, \* Router.resultEmitter is set
  listening,     \* endpoints whose on() holds the Router's result listener
  sockets,       \* per endpoint, the tasks emitted to it and not yet answered
  rlast,         \* the last Router event and what its dispatch cycle did
  enqueued,      \* id -> number of enqueueTask calls
  sent,          \* id -> number of agent.emit(task) calls
  arrived,       \* ids a result message has arrived for
  spurious,      \* result messages that answered no sent task
  notice,        \* what the subscriber found when the last result event called it
  aTaskQueue,    \* Agent.taskQueue
  aTaskResults,  \* Agent.taskResults: id -> TaskResult
  resultQueue,   \* Agent.resultQueue (ids of the queued results)
  records,       \* number of recordTaskResult calls
  plan,          \* the items the Plan's subtasks stream emits on subscription
  pc,            \* where processTask / executePlan stands
  stack,         \* streams being attached: items and position of each on()
  planQueue,     \* executePlan: planQueue
  streamEnded,   \* executePlan: streamEnded
  activeStreams, \* executePlan: activeStreams
  timer,         \* the setTimeout(..., 0) of executePlan
  resolveCalls,  \* number of resolve() calls on executePlan's promise
  ptResult,      \* what processTask returned
  plast,         \* the last subtask processItem handled and its resolved form
  emitted,       \* the subtasks the streams have emitted, in order
  flushIter,     \* parity of the iterations the flush loop has run
  response,      \* what the executeTask call of processTask settled with
  conn,          \* server: per socket, where its connection stands
  agentProxies,  \* Supervisor.agentProxies: worker id -> proxy
  registrations, \* server: per socket, the AgentProxy objects constructed on it
  req,           \* server: the body of the last POST /tasks request
  config,        \* Builder: the transitions and queries Builder(...) was given
  builder,       \* Builder: the calls that made the builder now held
  value,         \* Builder: the last terminal call and what it returned
  objects,       \* Builder: the builder objects made so far
  seen,          \* Builder: per object, its terminal calls and the first value
  blast,         \* Builder: the last call made on a builder object
  socket,        \* ShellWorker.socket: connected or not
  registered,    \* register-worker messages the worker has emitted
  runs,          \* per task message received, its processTask call
  received,      \* number of task messages received
  wTaskResults,  \* ShellWorker.taskResults: id -> TaskResult
  wout,          \* the task-result messages the worker has emitted, in order
  wreply         \* per task message, the task-result messages emitted for it

qvars == <<rq, qlast, qmarked, qsince>>

pvars == <<aTaskQueue, aTaskResults, resultQueue, records, plan, pc, stack,
           planQueue, streamEnded, activeStreams, timer, resolveCalls,
           ptResult, plast, emitted, flushIter, response>>

svars == <<conn, agentProxies, registrations, req>>

bvars == <<config, builder, value, objects, seen, blast>>

wvars == <<socket, registered, runs, received, wTaskResults, wout, wreply>>

rvars == <<taskQueue, agents, taskResults, resultEmitter, listening, sockets,
           rlast, enqueued, sent, arrived, spurious, notice>>

vars == <<rq, qlast, qmarked, qsince, taskQueue, agents, taskResults, resultEmitter,
          listening, sockets, rlast, enqueued, sent, arrived, spurious, notice,
          aTaskQueue, aTaskResults, resultQueue, records, plan, pc, stack,
          planQueue, streamEnded, activeStreams, timer, resolveCalls,
          ptResult, plast, emitted, flushIter, response,
          conn, agentProxies, registrations, req,
          config, builder, value, objects, seen, blast,
          socket, registered, runs, received, wTaskResults, wout, wreply>>

QCall(op, arg, ret) == [op |-> op, arg |-> arg, ret |-> ret]

\* new DependencyTaskQueue(), no call made yet
QIdle ==
  /\ rq = NewQueue
  /\ qlast = QCall("new", "", NoTask)
  /\ qmarked = {}
  /\ qsince = {}

(***************************************************************************)
(* Builder, src/index.ts                                                    *)
(***************************************************************************)
\* longest chain of transition calls
MaxChain == 3

\* property names of the states built
PKeys == {"test", "number", "a", "b", "c"}

\* a property the object does not have
Missing == "missing"

NoProps == [k \in PKeys |-> Missing]

\* an object with the given own properties; the value undefined
Obj(props) == [defined |-> TRUE, props |-> props]

Undefined == [defined |-> FALSE, props |-> NoProps]

\* the patches given to with / merge: objects with test and number, each
\* absent or present ({test: 'text'}, {number: 1}, {test: 1}, ...)
Patches ==
  { Obj([k \in PKeys |-> IF k = "test" THEN t ELSE IF k = "number" THEN n ELSE Missing]) :
      t \in {Missing, "text", "1"}, n \in {Missing, "1"} }

\* what Builder(transitions, queries) is called with: the member names of
\* transitions, and those of queries (none when queries is the function get,
\* the default): Builder(), Builder({merge}), Builder({merge}, {get}),
\* Builder({a, b, c})
Configuration(transitions, queries) ==
  [transitions |-> transitions, queries |-> queries]

Configurations ==
  { Configuration({"with"}, {}), Configuration({"merge"}, {}),
    Configuration({"merge"}, {"get"}), Configuration({"a", "b", "c"}, {}) }

\* Builder was not called
NoConfiguration == Configuration({}, {})

\* a call of a transition member with its argument
Call(key, patch) == [key |-> key, patch |-> patch]

\* partial() / merge, index.ts:58-60:
\* patch => (state = {}) => ({ ...state, ...patch })
mergeKeepFirst(patch, state) ==
  LET s == IF state.defined THEN state ELSE Obj(NoProps)
  IN Obj([k \in PKeys |->
            IF s.props[k] # Missing THEN s.props[k] ELSE patch.props[k]])

merge(patch, state) ==
  LET s == IF state.defined THEN state ELSE Obj(NoProps)
  IN Obj([k \in PKeys |->
            IF patch.props[k] # Missing THEN patch.props[k] ELSE s.props[k]])

\* get, index.ts:64-65: () => state => state
get(state) == state

\* the members a, b, c of index.spec.ts:128-132:
\* () => state => ({ ...state, [key]: true })
custom(key, state) ==
  Obj([k \in PKeys |-> IF k = key THEN "true" ELSE state.props[k]])

\* members[key](...args)(state) for a transition member, index.ts:107
member(call, state) ==
  IF call.key \in {"with", "merge"} THEN merge(call.patch, state)
  ELSE custom(call.key, state)

\* getState of the builder made by the calls b: createBuilder(() => {}) for
\* no call (index.ts:116), else () => nextState(...args) over the getState
\* of the builder the member was called on (index.ts:107-110)
RECURSIVE getState(_)
getState(b) ==
  IF b = <<>> THEN Undefined
  ELSE member(b[Len(b)], getState(SubSeq(b, 1, Len(b) - 1)))

\* builder objects alive at once
MaxObjects == 3

\* no member call: the builder Builder(...) returns
NoCall == Call("", Obj(NoProps))

\* a builder as createBuilder makes it, index.ts:100-114: the function
\* getState it was given, with the members assigned on it. getState closes
\* over the builder the member was called on (parent, its place among the
\* objects; 0 for the () => {} of index.ts:116) and over the call
BuilderObject(parent, call) == [parent |-> parent, call |-> call]

\* createBuilder(() => {}), index.ts:116
Root == BuilderObject(0, NoCall)

\* calling the builder at place i of the objects h: its getState runs
\* nextState over what the parent's getState returns now, index.ts:107-110
RECURSIVE stateOf(_, _)
stateOf(h, i) ==
  IF h[i].parent = 0 THEN Undefined
  ELSE member(h[i].call, stateOf(h, h[i].parent))

\* the member calls that lead from the root to the builder at place i
RECURSIVE ChainOf(_, _)
ChainOf(h, i) ==
  IF h[i].parent = 0 THEN <<>>
  ELSE Append(ChainOf(h, h[i].parent), h[i].call)

\* methods[key](...args) for a transition member on the builder at place r,
\* index.ts:110: createBuilder(() => nextState(...args)) makes a new function
\* object; heap is the objects afterwards, ret the place of what is returned
createBuilderInPlace(h, r, call) ==
  [heap |-> Append([h EXCEPT ![r] = BuilderObject(Len(h) + 1, call)], h[r]),
   ret |-> r]

createBuilder(h, r, call) ==
  [heap |-> Append(h, BuilderObject(r, call)), ret |-> Len(h) + 1]

\* the terminal calls made on one builder object: how many (2 stands for
\* two or more) and what the first returned
Seen(calls, first) == [calls |-> calls, first |-> first]

NotCalled == Seen(0, Undefined)

\* a call on a builder object: the member, the receiver, the place of the
\* builder returned (0 for a terminal) and the value returned
BEvent(op, recv, ret, val) == [op |-> op, recv |-> recv, ret |-> ret, val |-> val]

\* a terminal call: how it was made, on which builder, what it returned
Terminal(via, chain, ret) == [via |-> via, chain |-> chain, ret |-> ret]

NoTerminal == Terminal("", <<>>, Undefined)

\* the Builder is not part of the run
BIdle ==
  /\ config = NoConfiguration
  /\ builder = <<>>
  /\ value = NoTerminal
  /\ objects = <<>>
  /\ seen = [i \in 1..MaxObjects |-> NotCalled]
  /\ blast = BEvent("", 0, 0, Undefined)

(***************************************************************************)
(* Router, packages/router/src/router.ts                                    *)
(***************************************************************************)
\* TaskResult of task.ts as the Router builds and reads it:
\* {id, start, end, result: {data} | {error}}
Result(id, ok, val) == [id |-> id, ok |-> ok, val |-> val]

\* Map.get of an id with no entry
NoResult == Result("", FALSE, "undefined")

\* the message of the Error built at router.ts:68
NoAgentError == "No agent found for executor"

\* endpoint objects and their meta.type. An endpoint is the AgentProxy the
\* Supervisor constructs for one registration (supervisor.ts:26-32), so each
\* is registered once; e1 is the first proxy made for "shell", e2 the second
Endpoints == {"e1", "e2", "e3"}

meta(e) == IF e = "e3" THEN "llm" ELSE "shell"

\* agents.get of an unbound key
NoAgent == "none"

\* tasks submitted to the Router: t1 alone, dependents of t1 on both
\* capabilities (t2 with a resolver as params), an independent llm task
RTasks ==
  { Task("t1", "shell", <<>>, Plain),
    Task("t2", "shell", <<"t1">>, Fn),
    Task("t2", "llm", <<"t1">>, Fn),
    Task("t3", "shell", <<"t1">>, Plain),
    Task("t3", "llm", <<>>, Plain) }

\* what a worker answers to a task: success with data, or (for the task the
\* others depend on) failure with an error
WorkerResults(id) ==
  IF id = "t1" THEN {Result(id, TRUE, "hi"), Result(id, FALSE, "exit 1")}
  ELSE {Result(id, TRUE, "hi")}

\* result messages no task asked for: a result naming the id the others depend on
UnsolicitedResults == {Result("t1", TRUE, "hi")}

REvent(op, id, c) ==
  [op |-> op, id |-> id, dq |-> c.dq, out |-> c.out, to |-> c.to, pub |-> c.pub]

\* an event that runs no dispatch cycle
NoCycle == [dq |-> NoTask, out |-> "none", to |-> NoAgent, pub |-> <<>>]

Count(f) == f["t1"] + f["t2"] + f["t3"]

\* the Router as the subscriber finds it when it is called with the result
\* of id: what getTaskResult(id) returns, the queue, the send counters
Notice(id, res, q, snt) ==
  [id |-> id, status |-> res[id], completed |-> q.completed,
   tasks |-> q.tasks, sent |-> snt]

\* the last event was no result event
NoNotice ==
  [id |-> "", status |-> NoResult, completed |-> {}, tasks |-> <<>>,
   sent |-> [id \in Ids |-> 0]]

\* resultEmitter?.(result), router.ts:30-32 and 76-78
publish(emitter, result) == IF emitter THEN <<result>> ELSE <<>>

\* processNextTask, router.ts:60-83, on the queue q, result map res, channels
\* socks and send counters snt; pub is what the event published before it
processNextTaskThrow(q, res, socks, snt, pub) ==
  LET d == dequeue(q)
      task == d.ret
  IN
  IF task = NoTask
  THEN [taskQueue |-> d.q, taskResults |-> res, sockets |-> socks, sent |-> snt,
        dq |-> NoTask, out |-> "none", to |-> NoAgent, pub |-> pub]
  ELSE IF agents[task.executor] = NoAgent
  THEN [taskQueue |-> d.q, taskResults |-> res, sockets |-> socks, sent |-> snt,
        dq |-> task, out |-> "fail", to |-> NoAgent, pub |-> pub]
  ELSE LET agent == agents[task.executor] IN
       [taskQueue |-> d.q, taskResults |-> res,
        sockets |-> [socks EXCEPT ![agent] = Append(@, task)],
        sent |-> [snt EXCEPT ![task.id] = @ + 1],
        dq |-> task, out |-> "sent", to |-> agent, pub |-> pub]

processNextTask(q, res, socks, snt, pub) ==
  LET d == dequeue(q)
      task == d.ret
  IN
  IF task = NoTask
  THEN [taskQueue |-> d.q, taskResults |-> res, sockets |-> socks, sent |-> snt,
        dq |-> NoTask, out |-> "none", to |-> NoAgent, pub |-> pub]
  ELSE IF agents[task.executor] = NoAgent
  THEN LET result == Result(task.id, FALSE, NoAgentError) IN
       [taskQueue |-> d.q,
        taskResults |-> [res EXCEPT ![task.id] = result],
        sockets |-> socks, sent |-> snt,
        dq |-> task, out |-> "fail", to |-> NoAgent,
        pub |-> pub \o publish(resultEmitter, result)]
  ELSE LET agent == agents[task.executor] IN
       [taskQueue |-> d.q, taskResults |-> res,
        sockets |-> [socks EXCEPT ![agent] = Append(@, task)],
        sent |-> [snt EXCEPT ![task.id] = @ + 1],
        dq |-> task, out |-> "sent", to |-> agent, pub |-> pub]

\* the state a Router event leaves, from the record its dispatch cycle built
Commit(op, id, c) ==
  /\ taskQueue' = c.taskQueue
  /\ taskResults' = c.taskResults
  /\ sockets' = c.sockets
  /\ sent' = c.sent
  /\ rlast' = REvent(op, id, c)

(***************************************************************************)
(* Shell worker, packages/shell-worker/src/index.ts. Each task message     *)
(* starts a processTask call of its own, which awaits the promise of        *)
(* Shell.run; the child process of that run emits close, or error and      *)
(* then possibly close.                                                     *)
(***************************************************************************)
\* task messages received in one run of the worker
MaxTaskMessages == 3

\* connect events of the worker's socket
MaxConnects == 2

\* the task messages the server sends to a shell worker
WTasks ==
  { Task("t1", "shell", <<>>, Plain), Task("t2", "shell", <<"t1">>, Plain) }

\* what the child process wrote to stdout; the Error of a close with a
\* nonzero code; the Error of the child's error event
Stdout == "hi"

ExitError == "exit 1"

SpawnError == "spawn error"

\* one processTask call: its task, where the child process stands and how
\* the promise of Shell.run has settled
Run(task, child, promise, val) ==
  [task |-> task, child |-> child, promise |-> promise, val |-> val]

NoRun == Run(NoTask, "none", "none", "undefined")

\* resolve / reject of the promise of Shell.run: a promise settles once
settle(run, how, val) ==
  IF run.promise = "pending"
  THEN [run EXCEPT !.promise = how, !.val = val]
  ELSE run

\* child.on('close'), index.ts:26-32
onClose(run, code) ==
  [ (IF code = 0 THEN settle(run, "resolved", Stdout)
     ELSE settle(run, "rejected", ExitError)) EXCEPT !.child = "closed" ]

\* child.on('error'), index.ts:34-36
onError(run) ==
  [ settle(run, "rejected", SpawnError) EXCEPT !.child = "errored" ]

\* the TaskResult processTask builds once its await has ended, index.ts:
\* 106-111 after a resolve, 119-124 after a reject; task is the parameter
\* of the call
processTaskResultLatest(run) ==
  Result(runs[received].task.id, run.promise = "resolved", run.val)

processTaskResult(run) ==
  Result(run.task.id, run.promise = "resolved", run.val)

\* the worker has been constructed (index.ts:50-57) and has not connected;
\* nothing calls on(), so resultEmitter stays undefined
WIdle ==
  /\ socket = "disconnected"
  /\ registered = 0
  /\ runs = [n \in 1..MaxTaskMessages |-> NoRun]
  /\ received = 0
  /\ wTaskResults = [id \in Ids |-> NoResult]
  /\ wout = <<>>
  /\ wreply = [n \in 1..MaxTaskMessages |-> <<>>]

\* new Router() followed by router.onResult(...), as the server module does
\* on load (router.ts:5-12, 50-52; index.ts:19-20, 66-68)
RInit ==
  /\ taskQueue = NewQueue
  /\ agents = [k \in Keys |-> NoAgent]
  /\ taskResults = [id \in Ids |-> NoResult]
  /\ resultEmitter = TRUE
  /\ listening = {}
  /\ sockets = [e \in Endpoints |-> <<>>]
  /\ rlast = REvent("new", "", NoCycle)
  /\ enqueued = [id \in Ids |-> 0]
  /\ sent = [id \in Ids |-> 0]
  /\ arrived = {}
  /\ spurious = 0
  /\ notice = NoNotice

\* the Router is not part of the run
RIdle == RInit

\* worker ids sent in register-worker messages
WorkerIds == {"w1", "w2"}

\* a POST /tasks request: its body and the status of the response
Request(body, status) == [body |-> body, status |-> status]

\* the server module just loaded: no socket has connected, no request was made
SIdle ==
  /\ conn = [e \in Endpoints |-> "none"]
  /\ agentProxies = [w \in WorkerIds |-> NoAgent]
  /\ registrations = [e \in Endpoints |-> 0]
  /\ req = Request(NoTask, 0)

\* registerAgent, router.ts:14-39
registerAgentKeep(ags, agent) ==
  IF ags[meta(agent)] = NoAgent THEN [ags EXCEPT ![meta(agent)] = agent] ELSE ags

registerAgent(ags, agent) == [ags EXCEPT ![meta(agent)] = agent]

RegisterAgent ==
  \E e \in Endpoints \ listening :
    /\ e = "e2" => "e1" \in listening
    /\ agents' = registerAgent(agents, e)
    /\ listening' = listening \cup {e}
    /\ rlast' = REvent("registerAgent", e, NoCycle)
    /\ notice' = NoNotice
    /\ UNCHANGED <<taskQueue, taskResults, resultEmitter, sockets, enqueued,
                   sent, arrived, spurious, qvars, pvars, svars, bvars, wvars>>

\* unregisterAgent, router.ts:41-44; the listener given to on() stays
unregisterAgent(ags, agentType) == [ags EXCEPT ![agentType] = NoAgent]

UnregisterAgent ==
  \E k \in Keys :
    /\ agents' = unregisterAgent(agents, k)
    /\ rlast' = REvent("unregisterAgent", k, NoCycle)
    /\ notice' = NoNotice
    /\ UNCHANGED <<taskQueue, taskResults, resultEmitter, listening, sockets,
                   enqueued, sent, arrived, spurious, qvars, pvars, svars,
                   bvars, wvars>>

\* enqueueTask, router.ts:54-58
EnqueueTaskOf(task) ==
  /\ Count(enqueued) < MaxEnq
  /\ Commit("enqueueTask", task.id,
            processNextTask(enqueue(taskQueue, task), taskResults, sockets,
                            sent, <<>>))
  /\ enqueued' = [enqueued EXCEPT ![task.id] = @ + 1]
  /\ notice' = NoNotice
  /\ UNCHANGED <<agents, resultEmitter, listening, arrived, spurious, qvars, pvars, svars,
                 bvars, wvars>>

EnqueueTask == \E task \in RTasks : EnqueueTaskOf(task)

\* the listener registerAgent gives to agent.on, router.ts:19-38, run for a
\* TaskResult; socks is the channel state once the message has left it
onAgentResultNoDispatch(result, socks) ==
  [taskQueue |-> markCompleted(taskQueue, result.id),
   taskResults |-> [taskResults EXCEPT ![result.id] = result],
   sockets |-> socks, sent |-> sent,
   dq |-> NoTask, out |-> "none", to |-> NoAgent,
   pub |-> publish(resultEmitter, result)]

onAgentResultOkOnly(result, socks) ==
  processNextTask(IF result.ok THEN markCompleted(taskQueue, result.id)
                  ELSE taskQueue,
                  [taskResults EXCEPT ![result.id] = result],
                  socks, sent, publish(resultEmitter, result))

\* taskResults once router.ts:22 has run
stored(result) == [taskResults EXCEPT ![result.id] = result]

\* taskQueue once router.ts:24-27 has run
marked(result) == markCompleted(taskQueue, result.id)

\* the call of the subscriber at router.ts:29-32: lines 22 and 26 have run,
\* the dispatch cycle of line 35 has not
atNotifyUnstored(result) == Notice(result.id, taskResults, marked(result), sent)

atNotify(result) == Notice(result.id, stored(result), marked(result), sent)

onAgentResultTwice(result, socks) ==
  LET c == processNextTask(markCompleted(taskQueue, result.id),
                           [taskResults EXCEPT ![result.id] = result],
                           socks, sent, publish(resultEmitter, result))
  IN processNextTask(c.taskQueue, c.taskResults, c.sockets, c.sent, c.pub)

onAgentResult(result, socks) ==
  processNextTask(marked(result), stored(result),
                  socks, sent, publish(resultEmitter, result))

\* the worker behind endpoint e answers one of the tasks emitted to it (in
\* any order); the proxy hands the result to the listener it was given
\* (agent-proxy.ts:21-26, 37-39)
WorkerReplyOf(e) ==
  /\ e \in listening
  /\ \E i \in 1..Len(sockets[e]) :
       \E result \in WorkerResults(sockets[e][i].id) :
         /\ Commit("result", result.id,
                   onAgentResult(result, [sockets EXCEPT ![e] = splice(@, i)]))
         /\ arrived' = arrived \cup {result.id}
         /\ notice' = IF resultEmitter THEN atNotify(result) ELSE NoNotice
         /\ UNCHANGED <<agents, resultEmitter, listening, enqueued, spurious,
                        qvars, pvars, svars, bvars, wvars>>

WorkerReply == \E e \in Endpoints : WorkerReplyOf(e)

\* a result message that answers no task emitted on that endpoint (a second
\* answer, an answer for an id the endpoint was never sent)
SpuriousResult ==
  \E e \in listening :
    \E result \in UnsolicitedResults :
      /\ spurious < MaxSpurious
      /\ Commit("result", result.id, onAgentResult(result, sockets))
      /\ arrived' = arrived \cup {result.id}
      /\ notice' = IF resultEmitter THEN atNotify(result) ELSE NoNotice
      /\ spurious' = spurious + 1
      /\ UNCHANGED <<agents, resultEmitter, listening, enqueued, qvars, pvars, svars, bvars, wvars>>

\* getTaskResult, router.ts:85-87
getTaskResult(taskId) == taskResults[taskId]

(***************************************************************************)
(* The server: Supervisor (supervisor.ts) and POST /tasks (index.ts) around *)
(* the Router. A socket is one of the endpoints e1, e2, e3; the AgentProxy  *)
(* made for a register-worker message carries the socket, so the proxies   *)
(* of a socket are named like the socket and counted in registrations.      *)
(***************************************************************************)
\* io.on('connection'), supervisor.ts:18-19; sockets of one capability
\* connect in the order of their names
Connect ==
  \E e \in Endpoints :
    /\ conn[e] = "none"
    /\ e = "e2" => conn["e1"] # "none"
    /\ conn' = [conn EXCEPT ![e] = "connected"]
    /\ UNCHANGED <<agentProxies, registrations, req, rvars, qvars, pvars, bvars, wvars>>

\* register-worker messages handled on one socket
MaxRegistrations == 2

\* socket.on('register-worker'), supervisor.ts:22-36, for the message
\* {id: w, meta: {type: meta(e)}} on socket e: a new AgentProxy on the
\* socket, stored under w and registered with the Router
RegisterWorkerOn(e, w) ==
  /\ agentProxies' = [agentProxies EXCEPT ![w] = e]
  /\ agents' = registerAgent(agents, e)
  /\ listening' = listening \cup {e}
  /\ rlast' = REvent("registerAgent", e, NoCycle)
  /\ notice' = NoNotice
  /\ conn' = [conn EXCEPT ![e] = "registered"]
  /\ registrations' = [registrations EXCEPT ![e] = @ + 1]
  /\ UNCHANGED <<taskQueue, taskResults, resultEmitter, sockets, enqueued,
                 sent, arrived, spurious, req, qvars, pvars, bvars, wvars>>

\* the first register-worker message of a connection
RegisterWorker ==
  \E e \in Endpoints, w \in WorkerIds :
    /\ conn[e] = "connected"
    /\ RegisterWorkerOn(e, w)

\* a further register-worker message on a socket that has registered: the
\* handler of supervisor.ts:22 runs for every such message
RegisterAgain ==
  \E e \in Endpoints, w \in WorkerIds :
    /\ conn[e] = "registered"
    /\ registrations[e] < MaxRegistrations
    /\ RegisterWorkerOn(e, w)

\* the entries of agentProxies whose proxy.socket is the socket e
proxiesOf(e) == {w \in WorkerIds : agentProxies[w] = e}

\* socket.on('disconnect'), supervisor.ts:38-50
Disconnect ==
  \E e \in Endpoints :
    /\ conn[e] \in {"connected", "registered"}
    /\ conn' = [conn EXCEPT ![e] = "closed"]
    /\ IF proxiesOf(e) # {}
       THEN /\ \E w \in proxiesOf(e) :
                 agentProxies' = [agentProxies EXCEPT ![w] = NoAgent]
            /\ agents' = unregisterAgent(agents, meta(e))
            /\ rlast' = REvent("unregisterAgent", meta(e), NoCycle)
            /\ notice' = NoNotice
       ELSE UNCHANGED <<agentProxies, agents, rlast, notice>>
    /\ UNCHANGED <<taskQueue, taskResults, resultEmitter, listening, sockets,
                   enqueued, sent, arrived, spurious, registrations, req,
                   qvars, pvars, bvars, wvars>>

\* params of a request body: the field is absent, or present with the value 0
Absent == Params("undefined", <<>>)

Zero == Params("zero", <<>>)

\* request bodies: two tasks as they should be, one without id, one without
\* executor, one without params, one with params 0
Submissions ==
  { Task("t1", "shell", <<>>, Plain),
    Task("t2", "shell", <<"t1">>, Plain),
    Task("", "shell", <<>>, Plain),
    Task("t1", "", <<>>, Plain),
    Task("t1", "shell", <<>>, Absent),
    Task("t1", "shell", <<>>, Zero) }

\* !v of JavaScript for a string field (absent is "") and for params
falsy(v) == v = ""

falsyParams(params) == params \in {Absent, Zero}

\* the test of index.ts:37
invalidTaskNoParams(task) == falsy(task.id) \/ falsy(task.executor)

invalidTask(task) ==
  falsy(task.id) \/ falsy(task.executor) \/ falsyParams(task.params)

\* app.post('/tasks'), index.ts:34-45
PostTask ==
  \E body \in Submissions :
    /\ IF invalidTask(body)
       THEN /\ req' = Request(body, 400)
            /\ UNCHANGED <<taskQueue, taskResults, sockets, sent, rlast, enqueued,
                           notice>>
       ELSE /\ Count(enqueued) < MaxEnq
            /\ req' = Request(body, 200)
            /\ Commit("enqueueTask", body.id,
                      processNextTask(enqueue(taskQueue, body), taskResults,
                                      sockets, sent, <<>>))
            /\ enqueued' = [enqueued EXCEPT ![body.id] = @ + 1]
            /\ notice' = NoNotice
    /\ UNCHANGED <<agents, resultEmitter, listening, arrived, spurious, conn,
                   agentProxies, registrations, qvars, pvars, bvars, wvars>>

\* the tasks submitted while sockets come and go: a shell task, a shell task
\* depending on it, an llm task
ServerTasks ==
  { Task("t1", "shell", <<>>, Plain),
    Task("t2", "shell", <<"t1">>, Fn),
    Task("t3", "llm", <<>>, Plain) }

\* a POST /tasks request whose body passes the test of index.ts:37:
\* router.enqueueTask(task), index.ts:42
Submit == \E task \in ServerTasks : ~invalidTask(task) /\ EnqueueTaskOf(task)

\* the Router before a task-result message is handled, the message gone
\* from the channel state socks
AtMessage(socks) ==
  [taskQueue |-> taskQueue, taskResults |-> taskResults, sockets |-> socks,
   sent |-> sent, dq |-> NoTask, out |-> "none", to |-> NoAgent, pub |-> <<>>]

\* the Router's listener (router.ts:19-38) run on the state c left by the
\* listeners that ran before it for the same message
listener(c, result) ==
  processNextTask(markCompleted(c.taskQueue, result.id),
                  [c.taskResults EXCEPT ![result.id] = result],
                  c.sockets, c.sent, c.pub \o publish(resultEmitter, result))

\* a task-result message on a socket with n AgentProxy objects: each proxy
\* added its own 'task-result' listener to the socket (agent-proxy.ts:21-26)
\* and holds the Router's listener (router.ts:19), so the Router's listener
\* runs n times, one after the other
RECURSIVE deliver(_, _, _)
deliver(c, result, n) ==
  IF n = 0 THEN c ELSE deliver(listener(c, result), result, n - 1)

\* what the subscriber finds at the last of the n calls
lastNotice(c, result, n) ==
  LET b == deliver(c, result, n - 1)
  IN Notice(result.id, [b.taskResults EXCEPT ![result.id] = result],
            markCompleted(b.taskQueue, result.id), b.sent)

\* a task-result message arrives on a socket that is still connected
SocketReplyLate ==
  \E e \in Endpoints :
    /\ conn[e] \in {"registered", "closed"}
    /\ registrations[e] > 0
    /\ \E i \in 1..Len(sockets[e]) :
         \E result \in WorkerResults(sockets[e][i].id) :
           LET c == AtMessage([sockets EXCEPT ![e] = splice(@, i)]) IN
           /\ Commit("result", result.id, deliver(c, result, registrations[e]))
           /\ arrived' = arrived \cup {result.id}
           /\ notice' = IF resultEmitter
                         THEN lastNotice(c, result, registrations[e])
                         ELSE NoNotice
           /\ UNCHANGED <<agents, resultEmitter, listening, enqueued, spurious,
                          qvars, pvars, svars, bvars, wvars>>

SocketReply ==
  \E e \in Endpoints :
    /\ conn[e] = "registered"
    /\ \E i \in 1..Len(sockets[e]) :
         \E result \in WorkerResults(sockets[e][i].id) :
           LET c == AtMessage([sockets EXCEPT ![e] = splice(@, i)]) IN
           /\ Commit("result", result.id, deliver(c, result, registrations[e]))
           /\ arrived' = arrived \cup {result.id}
           /\ notice' = IF resultEmitter
                         THEN lastNotice(c, result, registrations[e])
                         ELSE NoNotice
           /\ UNCHANGED <<agents, resultEmitter, listening, enqueued, spurious,
                          qvars, pvars, svars, bvars, wvars>>

(***************************************************************************)
(* Agent.processTask / executePlan / flushQueueToTaskQueue, agent.ts:36-127 *)
(***************************************************************************)
\* longest subtasks stream of the plans tried
MaxPlanLen == 2
\* number of recordTaskResult calls in one run
MaxRecord == 2

\* an item of a subtasks stream: a SubTask, or a nested Plan with the items
\* its own stream emits on subscription (isSubTask, agent.ts:142-144)
SubTaskItem(task) == [kind |-> "task", task |-> task, items |-> <<>>]

PlanItem(items) == [kind |-> "plan", task |-> NoTask, items |-> items]

\* X without dependencies, Y depending on X with a resolver, Z with a
\* resolver over two dependencies listed out of id order, and a Y whose
\* resolver reads into the data of X
SubTasks ==
  { Task("t1", "shell", <<>>, Plain),
    Task("t2", "shell", <<"t1">>, Fn),
    Task("t3", "shell", <<"t2", "t1">>, Fn),
    Task("t2", "shell", <<"t1">>, Strict) }

FlatPlans ==
  UNION { [1..n -> {SubTaskItem(t) : t \in SubTasks}] : n \in 0..MaxPlanLen }

Tails == {<<>>} \cup {<<SubTaskItem(t)>> : t \in SubTasks}

\* the plans executeTask may return: flat ones, a nested flat plan with
\* at most one subtask after or before it, and a plan of one subtask nested
\* twice with at most one subtask after it in the plan between
Plans ==
  FlatPlans
    \cup { <<PlanItem(q)>> \o q2 : q \in FlatPlans, q2 \in Tails }
    \cup { q2 \o <<PlanItem(q)>> : q \in FlatPlans, q2 \in Tails }
    \cup { <<PlanItem(<<PlanItem(<<SubTaskItem(t)>>)>> \o q2)>> :
             t \in SubTasks, q2 \in Tails }

\* results recordTaskResult is called with: success carrying data, failure
AgentResults ==
  {Result(id, TRUE, id) : id \in Ids} \cup {Result(id, FALSE, "exit 1") : id \in Ids}

\* the task processTask is called with
Job == "job"

\* how the promise of executeTask settles: rejected with an error, or resolved
\* with a value described by its typeof, whether it is null, and its own keys
Response(how, typeof, isNull, keys, val) ==
  [how |-> how, typeof |-> typeof, isNull |-> isNull, keys |-> keys, val |-> val]

\* no executeTask call has settled
NoResponse == Response("pending", "undefined", FALSE, {}, "undefined")

\* a string (the stdout of the shell worker), a plain object, null
PlainResponses ==
  { Response("resolved", "string", FALSE, {}, "response"),
    Response("resolved", "object", FALSE, {"stdout"}, "object"),
    Response("resolved", "object", TRUE, {}, "null") }

Rejection == Response("rejected", "object", FALSE, {"message"}, "error")

PlanResponse == Response("resolved", "object", FALSE, {"id", "subtasks"}, "plan")

\* isPlan, agent.ts:71-73: typeof data === 'object' && 'subtasks' in data;
\* the in operator throws a TypeError when its right operand is null
isPlan(data) ==
  IF data.typeof # "object" THEN "false"
  ELSE IF data.isNull THEN "TypeError"
  ELSE IF "subtasks" \in data.keys THEN "true"
  ELSE "false"

Frame(items, i) == [items |-> items, i |-> i]

NoItem == [item |-> NoTask, resolved |-> NoTask]

\* new Agent(executor), agent.ts:20-34; no processTask call yet
PIdle ==
  /\ aTaskQueue = NewQueue
  /\ aTaskResults = [id \in Ids |-> NoResult]
  /\ resultQueue = <<>>
  /\ records = 0
  /\ plan = <<>>
  /\ pc = "idle"
  /\ stack = <<>>
  /\ planQueue = NewQueue
  /\ streamEnded = FALSE
  /\ activeStreams = 0
  /\ timer = "none"
  /\ resolveCalls = 0
  /\ ptResult = NoResult
  /\ plast = NoItem
  /\ emitted = <<>>
  /\ flushIter = 0
  /\ response = NoResponse

PInit ==
  /\ PIdle
  /\ QIdle
  /\ RIdle
  /\ SIdle
  /\ BIdle
  /\ WIdle

\* the event loop is free: no synchronous code of the agent is running
AtLoop == pc \in {"idle", "loop", "returned"}

\* recordTaskResult, agent.ts:158-166
RecordTaskResult ==
  \E result \in AgentResults :
    /\ AtLoop
    /\ records < MaxRecord
    /\ aTaskResults' = [aTaskResults EXCEPT ![result.id] = result]
    /\ resultQueue' = Append(resultQueue, result.id)
    /\ aTaskQueue' = markCompleted(aTaskQueue, result.id)
    /\ records' = records + 1
    /\ UNCHANGED <<plan, pc, stack, planQueue, streamEnded, activeStreams,
                   timer, resolveCalls, ptResult, plast, emitted, flushIter,
                 response, qvars, rvars, svars, bvars, wvars>>

\* dequeueTask, agent.ts:150-152
DequeueTask ==
  /\ AtLoop
  /\ peek(aTaskQueue) # NoTask
  /\ aTaskQueue' = dequeue(aTaskQueue).q
  /\ UNCHANGED <<aTaskResults, resultQueue, records, plan, pc, stack,
                 planQueue, streamEnded, activeStreams, timer, resolveCalls,
                 ptResult, plast, emitted, flushIter,
                 response, qvars, rvars, svars, bvars, wvars>>

\* processTask, agent.ts:36-67, when executeTask rejects or resolves with a
\* value that is no Plan: the result is returned at once; whatever is thrown
\* inside the try block, the isPlan test included, lands in the catch
ProcessTaskPlain ==
  \E r \in PlainResponses \cup {Rejection} :
    /\ pc = "idle"
    /\ pc' = "returned"
    /\ response' = r
    /\ ptResult' = IF r.how = "rejected" THEN Result(Job, FALSE, r.val)
                   ELSE IF isPlan(r) = "TypeError" THEN Result(Job, FALSE, "TypeError")
                   ELSE Result(Job, TRUE, r.val)
    /\ UNCHANGED <<aTaskQueue, aTaskResults, resultQueue, records, plan, stack,
                   planQueue, streamEnded, activeStreams, timer, resolveCalls,
                   plast, emitted, flushIter,
                 qvars, rvars, svars, bvars, wvars>>

\* processTask when executeTask resolves with a Plan: executePlan starts
\* (agent.ts:43-44, 75-79) and calls plan.subtasks.on (agent.ts:109)
ProcessTaskPlan ==
  \E p \in Plans :
    /\ pc = "idle"
    /\ isPlan(PlanResponse) = "true"
    /\ response' = PlanResponse
    /\ plan' = p
    /\ planQueue' = NewQueue
    /\ streamEnded' = FALSE
    /\ activeStreams' = 0
    /\ stack' = <<Frame(p, 1)>>
    /\ pc' = "emit"
    /\ UNCHANGED <<aTaskQueue, aTaskResults, resultQueue, records, timer,
                   resolveCalls, ptResult, plast, emitted, flushIter,
                 qvars, rvars, svars, bvars, wvars>>

\* checkCompletion, agent.ts:81-85: the number of resolve() calls it leaves
checkCompletionEager(ended, active, q, calls) ==
  IF active = 0 /\ isEmpty(q) THEN calls + 1 ELSE calls

checkCompletion(ended, active, q, calls) ==
  IF ended /\ active = 0 /\ isEmpty(q) THEN calls + 1 ELSE calls

Top == stack[Len(stack)]

Advance == [stack EXCEPT ![Len(stack)].i = @ + 1]

\* processItem for a SubTask, agent.ts:88-97 up to the call of
\* flushQueueToTaskQueue
EmitSubTask ==
  /\ pc = "emit"
  /\ Top.i <= Len(Top.items)
  /\ Top.items[Top.i].kind = "task"
  /\ ~resolveThrows(Top.items[Top.i].task, aTaskResults)
  /\ LET item == Top.items[Top.i].task
         resolvedSubtask ==
           [item EXCEPT !.params = IF isFunction(item.params)
                                   THEN resolveParams(item, aTaskResults)
                                   ELSE item.params]
     IN /\ planQueue' = enqueue(planQueue, resolvedSubtask)
        /\ plast' = [item |-> item, resolved |-> resolvedSubtask]
        /\ emitted' = Append(emitted, item)
  /\ stack' = Advance
  /\ pc' = "flush"
  /\ UNCHANGED <<aTaskQueue, aTaskResults, resultQueue, records, plan,
                 streamEnded, activeStreams, timer, resolveCalls, ptResult,
                 flushIter,
                 response, qvars, rvars, svars, bvars, wvars>>

\* processItem for a SubTask whose resolver throws, agent.ts:88-93, 139:
\* nothing catches the error in processItem, the listener, the (synchronous)
\* on() calls or the Promise executor, so executePlan's promise is rejected
\* and the deferred check of agent.ts:113 is never scheduled
EmitSubTaskThrows ==
  /\ pc = "emit"
  /\ timer = "none"
  /\ Top.i <= Len(Top.items)
  /\ Top.items[Top.i].kind = "task"
  /\ resolveThrows(Top.items[Top.i].task, aTaskResults)
  /\ plast' = [item |-> Top.items[Top.i].task, resolved |-> NoTask]
  /\ emitted' = Append(emitted, Top.items[Top.i].task)
  /\ stack' = <<>>
  /\ pc' = "rejected"
  /\ UNCHANGED <<aTaskQueue, aTaskResults, resultQueue, records, plan,
                 planQueue, streamEnded, activeStreams, timer, resolveCalls,
                 ptResult, flushIter, response, qvars, rvars, svars, bvars, wvars>>

\* await executePlan(response) throws into the catch of processTask,
\* agent.ts:44, 59-66
ProcessTaskCatch ==
  /\ pc = "rejected"
  /\ ptResult' = Result(Job, FALSE, "TypeError")
  /\ pc' = "returned"
  /\ UNCHANGED <<aTaskQueue, aTaskResults, resultQueue, records, plan, stack,
                 planQueue, streamEnded, activeStreams, timer, resolveCalls,
                 plast, emitted, flushIter, response, qvars, rvars, svars,
                 bvars, wvars>>

\* one iteration of the while loop of flushQueueToTaskQueue, agent.ts:121-126
FlushStep ==
  /\ pc = "flush"
  /\ ~isEmpty(planQueue)
  /\ planQueue' = dequeue(planQueue).q
  /\ aTaskQueue' = IF dequeue(planQueue).ret # NoTask
                   THEN enqueue(aTaskQueue, dequeue(planQueue).ret)
                   ELSE aTaskQueue
  /\ flushIter' = 1 - flushIter
  /\ UNCHANGED <<aTaskResults, resultQueue, records, plan, pc, stack,
                 streamEnded, activeStreams, timer, resolveCalls, ptResult,
                 plast, emitted, response, qvars, rvars, svars, bvars, wvars>>

\* the loop condition fails: flushQueueToTaskQueue returns and processItem
\* ends with checkCompletion, agent.ts:121, 106
FlushReturn ==
  /\ pc = "flush"
  /\ isEmpty(planQueue)
  /\ resolveCalls' =
       checkCompletion(streamEnded, activeStreams, planQueue, resolveCalls)
  /\ pc' = "emit"
  /\ UNCHANGED <<aTaskQueue, aTaskResults, resultQueue, records, plan, stack,
                 planQueue, streamEnded, activeStreams, timer, ptResult, plast,
                 emitted, flushIter,
                 response, qvars, rvars, svars, bvars, wvars>>

\* processItem for a nested Plan, agent.ts:99-103: the counter goes up and
\* the nested stream is subscribed to
EmitPlan ==
  /\ pc = "emit"
  /\ Top.i <= Len(Top.items)
  /\ Top.items[Top.i].kind = "plan"
  /\ activeStreams' = activeStreams + 1
  /\ stack' = Append(Advance, Frame(Top.items[Top.i].items, 1))
  /\ UNCHANGED <<aTaskQueue, aTaskResults, resultQueue, records, plan, pc,
                 planQueue, streamEnded, timer, resolveCalls, ptResult, plast,
                 emitted, flushIter,
                 response, qvars, rvars, svars, bvars, wvars>>

\* the nested on() returns, agent.ts:104-106: the counter goes down and
\* processItem ends with checkCompletion
AttachReturn ==
  /\ pc = "emit"
  /\ Len(stack) > 1
  /\ Top.i > Len(Top.items)
  /\ activeStreams' = activeStreams - 1
  /\ resolveCalls' =
       checkCompletion(streamEnded, activeStreams - 1, planQueue, resolveCalls)
  /\ stack' = SubSeq(stack, 1, Len(stack) - 1)
  /\ UNCHANGED <<aTaskQueue, aTaskResults, resultQueue, records, plan, pc,
                 planQueue, streamEnded, timer, ptResult, plast, emitted,
                 flushIter,
                 response, qvars, rvars, svars, bvars, wvars>>

\* plan.subtasks.on returns and the deferred check is scheduled,
\* agent.ts:109-116; executePlan's executor returns to the event loop
SubscribeReturn ==
  /\ pc = "emit"
  /\ timer = "none"
  /\ Len(stack) = 1
  /\ Top.i > Len(Top.items)
  /\ stack' = <<>>
  /\ timer' = "scheduled"
  /\ pc' = "loop"
  /\ UNCHANGED <<aTaskQueue, aTaskResults, resultQueue, records, plan,
                 planQueue, streamEnded, activeStreams, resolveCalls, ptResult,
                 plast, emitted, flushIter,
                 response, qvars, rvars, svars, bvars, wvars>>

\* the setTimeout callback, agent.ts:113-116
TimerFires ==
  /\ pc = "loop"
  /\ timer = "scheduled"
  /\ timer' = "fired"
  /\ streamEnded' = TRUE
  /\ resolveCalls' = checkCompletion(TRUE, activeStreams, planQueue, resolveCalls)
  /\ UNCHANGED <<aTaskQueue, aTaskResults, resultQueue, records, plan, pc,
                 stack, planQueue, activeStreams, ptResult, plast, emitted,
                 flushIter,
                 response, qvars, rvars, svars, bvars, wvars>>

\* executePlan's promise is settled by the first resolve() call
settled == resolveCalls > 0

\* processTask resumes after await executePlan and returns, agent.ts:44-50
ProcessTaskReturn ==
  /\ pc = "loop"
  /\ settled
  /\ ptResult' = Result(Job, TRUE, "Plan executed")
  /\ pc' = "returned"
  /\ UNCHANGED <<aTaskQueue, aTaskResults, resultQueue, records, plan, stack,
                 planQueue, streamEnded, activeStreams, timer, resolveCalls,
                 plast, emitted, flushIter,
                 response, qvars, rvars, svars, bvars, wvars>>

PNext ==
  \/ RecordTaskResult
  \/ DequeueTask
  \/ ProcessTaskPlain
  \/ ProcessTaskPlan
  \/ EmitSubTask
  \/ EmitSubTaskThrows
  \/ ProcessTaskCatch
  \/ FlushStep
  \/ FlushReturn
  \/ EmitPlan
  \/ AttachReturn
  \/ SubscribeReturn
  \/ TimerFires
  \/ ProcessTaskReturn

PlanSpec == PInit /\ [][PNext]_vars

\* the event loop runs every callback that is ready and every synchronous
\* section runs to its end
FairPlanSpec ==
  /\ PlanSpec
  /\ WF_vars(EmitSubTask) /\ WF_vars(FlushStep) /\ WF_vars(FlushReturn)
  /\ WF_vars(EmitPlan) /\ WF_vars(AttachReturn) /\ WF_vars(SubscribeReturn)
  /\ WF_vars(TimerFires) /\ WF_vars(ProcessTaskReturn)
  /\ WF_vars(EmitSubTaskThrows) /\ WF_vars(ProcessTaskCatch)

(***************************************************************************)
(* LateSpec: executePlan with a plan whose stream goes on emitting after   *)
(* plan.subtasks.on has returned; the listener of agent.ts:109 then runs   *)
(* from the event loop, before or after the deferred check                 *)
(***************************************************************************)
\* subtasks emitted in one run, the late ones included
MaxEmitted == 3

\* what the stream emits late: a subtask, or a nested plan emitting t1 or
\* the t2 whose resolver reads into the data of t1
LateItems ==
  {SubTaskItem(t) : t \in SubTasks}
    \cup {PlanItem(<<SubTaskItem(Task("t1", "shell", <<>>, Plain))>>),
          PlanItem(<<SubTaskItem(Task("t2", "shell", <<"t1">>, Strict))>>)}

\* executePlan's executor has returned: its timer is scheduled or has fired
Late == timer # "none"

\* where the event loop stands when a late listener call ends: processTask
\* is still awaiting executePlan, or has returned
Resume == IF ptResult = NoResult THEN "loop" ELSE "returned"

\* the stream emits an item after subscription: the listener given to
\* plan.subtasks.on calls processItem(item), agent.ts:109-111
LateEmit ==
  \E item \in LateItems :
    /\ pc \in {"loop", "returned"}
    /\ Late
    /\ Len(emitted) < MaxEmitted
    /\ stack' = <<Frame(<<item>>, 1)>>
    /\ pc' = "emit"
    /\ UNCHANGED <<aTaskQueue, aTaskResults, resultQueue, records, plan,
                   planQueue, streamEnded, activeStreams, timer, resolveCalls,
                   ptResult, plast, emitted, flushIter, response, qvars, rvars,
                   svars, bvars, wvars>>

\* the late listener call returns to the event loop
LateReturn ==
  /\ pc = "emit"
  /\ Late
  /\ Len(stack) = 1
  /\ Top.i > Len(Top.items)
  /\ stack' = <<>>
  /\ pc' = Resume
  /\ UNCHANGED <<aTaskQueue, aTaskResults, resultQueue, records, plan,
                 planQueue, streamEnded, activeStreams, timer, resolveCalls,
                 ptResult, plast, emitted, flushIter, response, qvars, rvars,
                 svars, bvars, wvars>>

\* a resolver throws in a late processItem call, agent.ts:88-93, 139: the
\* error leaves the listener towards whoever made the stream emit; the
\* statements after the throwing call (activeStreams-- of an enclosing
\* attachment included) are skipped
LateThrows ==
  /\ pc = "emit"
  /\ Late
  /\ Top.i <= Len(Top.items)
  /\ Top.items[Top.i].kind = "task"
  /\ resolveThrows(Top.items[Top.i].task, aTaskResults)
  /\ plast' = [item |-> Top.items[Top.i].task, resolved |-> NoTask]
  /\ emitted' = Append(emitted, Top.items[Top.i].task)
  /\ stack' = <<>>
  /\ pc' = Resume
  /\ UNCHANGED <<aTaskQueue, aTaskResults, resultQueue, records, plan,
                 planQueue, streamEnded, activeStreams, timer, resolveCalls,
                 ptResult, flushIter, response, qvars, rvars, svars, bvars, wvars>>

LateNext ==
  \/ RecordTaskResult
  \/ ProcessTaskPlan
  \/ EmitSubTask
  \/ EmitSubTaskThrows
  \/ ProcessTaskCatch
  \/ FlushStep
  \/ FlushReturn
  \/ EmitPlan
  \/ AttachReturn
  \/ SubscribeReturn
  \/ TimerFires
  \/ ProcessTaskReturn
  \/ LateEmit
  \/ LateReturn
  \/ LateThrows

LateSpec == PInit /\ [][LateNext]_vars

\* the event loop runs every callback that is ready and every synchronous
\* section runs to its end; nothing obliges the stream to emit late
FairLateSpec ==
  /\ LateSpec
  /\ WF_vars(EmitSubTask) /\ WF_vars(FlushStep) /\ WF_vars(FlushReturn)
  /\ WF_vars(EmitPlan) /\ WF_vars(AttachReturn) /\ WF_vars(SubscribeReturn)
  /\ WF_vars(TimerFires) /\ WF_vars(ProcessTaskReturn)
  /\ WF_vars(EmitSubTaskThrows) /\ WF_vars(ProcessTaskCatch)
  /\ WF_vars(LateReturn) /\ WF_vars(LateThrows)

Init ==
  /\ RInit
  /\ QIdle
  /\ PIdle
  /\ SIdle
  /\ BIdle
  /\ WIdle

Next ==
  \/ RegisterAgent
  \/ UnregisterAgent
  \/ EnqueueTask
  \/ WorkerReply
  \/ SpuriousResult

Spec == Init /\ [][Next]_vars

(***************************************************************************)
(* ServerSpec: the Router as the Supervisor drives it, through socket      *)
(* connections, registrations and disconnections                            *)
(***************************************************************************)
ServerNext ==
  \/ Connect
  \/ RegisterWorker
  \/ Disconnect
  \/ Submit
  \/ SocketReply

ServerSpec == Init /\ [][ServerNext]_vars

(***************************************************************************)
(* BuilderSpec: a builder of one of the configurations, transition calls   *)
(* chained on it and terminal calls made on the chain                      *)
(***************************************************************************)
\* const builder = Builder(...), index.ts:89-117
BInit ==
  /\ config \in Configurations
  /\ builder = <<>>
  /\ value = NoTerminal
  /\ objects = <<>>
  /\ seen = [i \in 1..MaxObjects |-> NotCalled]
  /\ blast = BEvent("", 0, 0, Undefined)
  /\ QIdle
  /\ RIdle
  /\ PIdle
  /\ SIdle
  /\ WIdle

\* builder.key(patch) for a transition member, index.ts:110: a builder over
\* the call and the builder it was called on
CallTransition ==
  \E key \in config.transitions \ config.queries :
    \E patch \in IF key \in {"with", "merge"} THEN Patches ELSE {Obj(NoProps)} :
      /\ Len(builder) < MaxChain
      /\ builder' = Append(builder, Call(key, patch))
      /\ UNCHANGED <<config, value, objects, seen, blast, qvars, rvars, pvars,
                     svars, wvars>>

\* builder(): the builder is its getState function, index.ts:113
CallBuilder ==
  /\ value' = Terminal("()", builder, getState(builder))
  /\ UNCHANGED <<config, builder, objects, seen, blast, qvars, rvars, pvars,
                 svars, wvars>>

\* builder.get() for the query member get, index.ts:107-109
CallQuery ==
  /\ "get" \in config.queries
  /\ value' = Terminal("get", builder, get(getState(builder)))
  /\ UNCHANGED <<config, builder, objects, seen, blast, qvars, rvars, pvars,
                 svars, wvars>>

BNext ==
  \/ CallTransition
  \/ CallBuilder
  \/ CallQuery

BuilderSpec == BInit /\ [][BNext]_vars

(***************************************************************************)
(* ChainSpec: the builder objects of a program that keeps every builder it *)
(* makes, calls transition members on any of them and calls any of them    *)
(***************************************************************************)
\* the patches of index.spec.ts:11-16: {test: 'text'}, {number: 1}
ChainPatches ==
  { Obj([k \in PKeys |-> IF k = "test" THEN "text" ELSE Missing]),
    Obj([k \in PKeys |-> IF k = "number" THEN "1" ELSE Missing]) }

\* const builder = Builder(...), index.ts:89-117
ChainInit ==
  /\ config \in Configurations
  /\ builder = <<>>
  /\ value = NoTerminal
  /\ objects = <<Root>>
  /\ seen = [i \in 1..MaxObjects |-> NotCalled]
  /\ blast = BEvent("Builder", 0, 1, Undefined)
  /\ QIdle
  /\ RIdle
  /\ PIdle
  /\ SIdle
  /\ WIdle

\* b.key(patch) for a transition member on any builder made so far
ChainTransition ==
  \E r \in 1..Len(objects) :
    \E key \in config.transitions \ config.queries :
      \E patch \in IF key \in {"with", "merge"} THEN ChainPatches
                   ELSE {Obj(NoProps)} :
        LET c == createBuilder(objects, r, Call(key, patch)) IN
        /\ Len(objects) < MaxObjects
        /\ objects' = c.heap
        /\ blast' = BEvent(key, r, c.ret, Undefined)
        /\ UNCHANGED <<config, builder, value, seen, qvars, rvars, pvars,
                       svars, wvars>>

\* what a terminal call on the builder at place r leaves, v being its value
Called(op, r, v) ==
  /\ blast' = BEvent(op, r, 0, v)
  /\ seen' = [seen EXCEPT ![r] = IF @.calls = 0 THEN Seen(1, v)
                                 ELSE Seen(2, @.first)]
  /\ UNCHANGED <<config, builder, value, objects, qvars, rvars, pvars, svars,
                 wvars>>

\* b() on any builder made so far, index.ts:113
ChainCall ==
  \E r \in 1..Len(objects) : Called("()", r, stateOf(objects, r))

\* b.get() on any builder made so far, index.ts:107-109
ChainQuery ==
  \E r \in 1..Len(objects) :
    /\ "get" \in config.queries
    /\ Called("get", r, get(stateOf(objects, r)))

ChainNext ==
  \/ ChainTransition
  \/ ChainCall
  \/ ChainQuery

ChainSpec == ChainInit /\ [][ChainNext]_vars

(***************************************************************************)
(* WorkerSpec: a shell worker that connects, receives task messages and    *)
(* runs their commands concurrently                                         *)
(***************************************************************************)
WInit ==
  /\ WIdle
  /\ QIdle
  /\ RIdle
  /\ PIdle
  /\ SIdle
  /\ BIdle

\* socket.on('connect'), index.ts:60-67: the worker registers
WConnect ==
  /\ socket = "disconnected"
  /\ registered < MaxConnects
  /\ socket' = "connected"
  /\ registered' = registered + 1
  /\ UNCHANGED <<runs, received, wTaskResults, wout, wreply, qvars, rvars,
                 pvars, svars, bvars>>

\* socket.on('disconnect'), index.ts:78-80
WDisconnect ==
  /\ socket = "connected"
  /\ socket' = "disconnected"
  /\ UNCHANGED <<registered, runs, received, wTaskResults, wout, wreply,
                 qvars, rvars, pvars, svars, bvars>>

\* socket.on('task'), index.ts:73-76: processTask(task) runs up to its await
\* (index.ts:100-105), the child process is spawned (index.ts:7-13)
WTask ==
  \E task \in WTasks :
    /\ socket = "connected"
    /\ received < MaxTaskMessages
    /\ received' = received + 1
    /\ runs' = [runs EXCEPT ![received + 1] = Run(task, "alive", "pending", "undefined")]
    /\ UNCHANGED <<socket, registered, wTaskResults, wout, wreply, qvars,
                   rvars, pvars, svars, bvars>>

\* an event of the child of call n has left its run as after; if it settled
\* the promise, processTask resumes (index.ts:106-117 or 118-133): the
\* result is stored and emitted (buffered by the socket while disconnected)
WSettled(n, after) ==
  /\ runs' = [runs EXCEPT ![n] = after]
  /\ IF runs[n].promise = "pending"
     THEN LET result == processTaskResult(after) IN
          /\ wTaskResults' = [wTaskResults EXCEPT ![result.id] = result]
          /\ wout' = Append(wout, result)
          /\ wreply' = [wreply EXCEPT ![n] = Append(@, result)]
     ELSE UNCHANGED <<wTaskResults, wout, wreply>>
  /\ UNCHANGED <<socket, registered, received, qvars, rvars, pvars, svars,
                 bvars>>

\* the child of call n closes with exit code 0 or 1
WChildClose ==
  \E n \in 1..received :
    \E code \in {0, 1} :
      /\ runs[n].child \in {"alive", "errored"}
      /\ runs[n].child = "errored" => code = 1
      /\ WSettled(n, onClose(runs[n], code))

\* the child of call n could not be spawned
WChildError ==
  \E n \in 1..received :
    /\ runs[n].child = "alive"
    /\ WSettled(n, onError(runs[n]))

WNext ==
  \/ WConnect
  \/ WDisconnect
  \/ WTask
  \/ WChildClose
  \/ WChildError

WorkerSpec == WInit /\ [][WNext]_vars

(***************************************************************************)
(* ConnSpec: the life of connections, with sockets that send more than one *)
(* register-worker message, and shell tasks submitted meanwhile            *)
(***************************************************************************)
\* a shell task and a shell task depending on it
ConnTasks ==
  { Task("t1", "shell", <<>>, Plain),
    Task("t2", "shell", <<"t1">>, Plain) }

ConnSubmit == \E task \in ConnTasks : ~invalidTask(task) /\ EnqueueTaskOf(task)

ConnNext ==
  \/ Connect
  \/ RegisterWorker
  \/ RegisterAgain
  \/ Disconnect
  \/ ConnSubmit
  \/ SocketReply

ConnSpec == Init /\ [][ConnNext]_vars

(***************************************************************************)
(* ApiSpec: POST /tasks requests with bodies of every shape, with          *)
(* endpoints registering and workers answering                              *)
(***************************************************************************)
ApiNext ==
  \/ RegisterAgent
  \/ PostTask
  \/ WorkerReply

ApiSpec == Init /\ [][ApiNext]_vars

(***************************************************************************)
(* SilentSpec: the Router when the "llm" worker never answers and every    *)
(* "shell" worker answers each task it is sent                              *)
(***************************************************************************)
ShellEndpoints == {e \in Endpoints : meta(e) = "shell"}

ShellReply == \E e \in ShellEndpoints : WorkerReplyOf(e)

SilentNext ==
  \/ RegisterAgent
  \/ EnqueueTask
  \/ ShellReply

\* the Router once registerAgent(e1) and registerAgent(e3) have run: both
\* capabilities have an endpoint
SilentInit ==
  /\ taskQueue = NewQueue
  /\ agents = registerAgent(registerAgent([k \in Keys |-> NoAgent], "e1"), "e3")
  /\ taskResults = [id \in Ids |-> NoResult]
  /\ resultEmitter = TRUE
  /\ listening = {"e1", "e3"}
  /\ sockets = [e \in Endpoints |-> <<>>]
  /\ rlast = REvent("registerAgent", "e3", NoCycle)
  /\ enqueued = [id \in Ids |-> 0]
  /\ sent = [id \in Ids |-> 0]
  /\ arrived = {}
  /\ spurious = 0
  /\ notice = NoNotice
  /\ QIdle
  /\ PIdle
  /\ SIdle
  /\ BIdle
  /\ WIdle

\* a task-result message a shell worker has to send is eventually delivered
SilentSpec ==
  /\ SilentInit
  /\ [][SilentNext]_vars
  /\ \A e \in ShellEndpoints : WF_vars(WorkerReplyOf(e))

(***************************************************************************)
(* QSpec: the queue driven by arbitrary enqueue / dequeue / peek /          *)
(* markCompleted / clear calls                                              *)
(***************************************************************************)
\* independent tasks, a chain t1 <- t2 <- t3, a self-dependency and a cycle
QTasks ==
  { Task("t1", "shell", <<>>, Plain),
    Task("t2", "shell", <<>>, Plain),
    Task("t2", "shell", <<"t1">>, Plain),
    Task("t3", "shell", <<"t1", "t2">>, Plain),
    Task("t3", "shell", <<"t3">>, Plain),
    Task("t1", "shell", <<"t2">>, Plain) }

QInit ==
  /\ QIdle
  /\ RIdle
  /\ PIdle
  /\ SIdle
  /\ BIdle
  /\ WIdle

QEnqueue ==
  \E t \in QTasks :
    /\ size(rq) < MaxQueue
    /\ rq' = enqueue(rq, t)
    /\ qlast' = QCall("enqueue", t.id, NoTask)
    /\ UNCHANGED <<qmarked, qsince, rvars, pvars, svars, bvars, wvars>>

QDequeue ==
  /\ rq' = dequeue(rq).q
  /\ qlast' = QCall("dequeue", "", dequeue(rq).ret)
  /\ UNCHANGED <<qmarked, qsince, rvars, pvars, svars, bvars, wvars>>

QPeek ==
  /\ qlast' = QCall("peek", "", peek(rq))
  /\ UNCHANGED <<rq, qmarked, qsince, rvars, pvars, svars, bvars, wvars>>

QMarkCompleted ==
  \E id \in Ids :
    /\ rq' = markCompleted(rq, id)
    /\ qlast' = QCall("markCompleted", id, NoTask)
    /\ qmarked' = qmarked \cup {id}
    /\ qsince' = qsince \cup {id}
    /\ UNCHANGED <<rvars, pvars, svars, bvars, wvars>>

QClear ==
  /\ rq' = clear(rq)
  /\ qlast' = QCall("clear", "", NoTask)
  /\ qsince' = {}
  /\ UNCHANGED <<qmarked, rvars, pvars, svars, bvars, wvars>>

QNext == QEnqueue \/ QDequeue \/ QPeek \/ QMarkCompleted \/ QClear

QSpec == QInit /\ [][QNext]_vars

(***************************************************************************)
(* C1: dequeue returns a task only when every id of its dependency list is  *)
(* in the completed set at that moment, hence only after markCompleted was  *)
(* called for each of them (B depending on A is never dequeued before       *)
(* markCompleted(A.id)).                                                     *)
(***************************************************************************)
C1_DependencyOrder ==
  (qlast.op = "dequeue" /\ qlast.ret # NoTask) =>
    /\ Range(qlast.ret.dependencies) \subseteq rq.completed
    /\ Range(qlast.ret.dependencies) \subseteq qmarked

\* a task with a dependency has been returned by dequeue
C1_Witness ==
  /\ qlast.op = "dequeue"
  /\ qlast.ret # NoTask
  /\ Len(qlast.ret.dependencies) > 0

(***************************************************************************)
(* C2: no duplicate dispatch. Over every interleaving of enqueueTask,       *)
(* result arrival, registerAgent and unregisterAgent, the number of times   *)
(* a task id was emitted to an endpoint never exceeds the number of times   *)
(* that id was enqueued.                                                     *)
(***************************************************************************)
C2_NoDuplicateDispatch == \A id \in Ids : sent[id] <= enqueued[id]

\* t1 was enqueued once and sent once, and its result has since arrived and
\* run a further dispatch cycle
C2_Witness ==
  /\ enqueued["t1"] = 1
  /\ sent["t1"] = 1
  /\ rlast.op = "result"
  /\ rlast.id = "t1"
  /\ rlast.out = "sent"

(***************************************************************************)
(* C3: no work is silently dropped. When no sent task is waiting for its    *)
(* result (no event is pending) and every result message so far answered a  *)
(* sent task, no task whose dependencies are all completed is still sitting *)
(* in the queue.                                                             *)
(***************************************************************************)
Quiescent == \A e \in Endpoints : sockets[e] = <<>>

C3_NoReadyTaskAtRest ==
  (spurious = 0 /\ Quiescent) => peek(taskQueue) = NoTask

(***************************************************************************)
(* C4: routing failure. A dispatch cycle that dequeues a task whose         *)
(* capability key has no bound endpoint stores a failure TaskResult for the *)
(* task id, publishes that result to the subscriber last, and emits the     *)
(* task on no endpoint channel; getTaskResult(id) then returns the failure. *)
(***************************************************************************)
C4_RoutingFailure ==
  [][ rlast'.out = "fail" =>
        /\ agents[rlast'.dq.executor] = NoAgent
        /\ taskResults'[rlast'.dq.id] =
             Result(rlast'.dq.id, FALSE, NoAgentError)
        /\ Len(rlast'.pub) > 0
        /\ rlast'.pub[Len(rlast'.pub)] =
             Result(rlast'.dq.id, FALSE, NoAgentError)
        /\ sent' = sent
        /\ \A e \in Endpoints : Len(sockets'[e]) <= Len(sockets[e]) ]_vars

\* Scenario A: t1 enqueued with nothing bound for "shell"; the status query
\* returns the failure
C4_Witness ==
  /\ rlast.op = "enqueueTask"
  /\ rlast.out = "fail"
  /\ rlast.dq.id = "t1"
  /\ getTaskResult("t1") = Result("t1", FALSE, NoAgentError)

(***************************************************************************)
(* C5: rebinding. registerAgent binds its endpoint under the capability     *)
(* key, replacing any earlier binding, and every task emitted goes to the   *)
(* endpoint that is bound for its key when it is dispatched, so never to a  *)
(* replaced endpoint.                                                        *)
(***************************************************************************)
C5_Rebinding ==
  /\ rlast.op = "registerAgent" => agents[meta(rlast.id)] = rlast.id
  /\ rlast.out = "sent" =>
       /\ rlast.to = agents[rlast.dq.executor]
       /\ rlast.dq = sockets[rlast.to][Len(sockets[rlast.to])]
       /\ \A e \in Endpoints \ {rlast.to} :
            meta(e) = meta(rlast.to) => agents[meta(e)] # e

\* e2 replaced e1 while a task was in flight on e1; a task enqueued after
\* that went to e2
C5_Witness ==
  /\ agents["shell"] = "e2"
  /\ sockets["e1"] # <<>>
  /\ rlast.op = "enqueueTask"
  /\ rlast.out = "sent"
  /\ rlast.to = "e2"

(***************************************************************************)
(* C6: Scenario B ordering. A task is never emitted before a result has     *)
(* arrived for each of its dependencies; and when the result of t1 arrives  *)
(* and a queued task t2 depending on t1 is thereby the first task with all  *)
(* dependencies completed, with an endpoint bound for its capability, t2 is *)
(* emitted to that endpoint in the dispatch cycle of that same event.       *)
(***************************************************************************)
C6_NotBeforeResult ==
  rlast.out = "sent" => Range(rlast.dq.dependencies) \subseteq arrived

C6_SentOnResult ==
  rlast'.op = "result" =>
    LET q == markCompleted(taskQueue, rlast'.id)
        i == findIndex(q)
    IN (/\ i # 0
        /\ rlast'.id \in Range(q.tasks[i].dependencies)
        /\ agents[q.tasks[i].executor] # NoAgent)
       => /\ rlast'.out = "sent"
          /\ rlast'.dq = q.tasks[i]
          /\ rlast'.to = agents[q.tasks[i].executor]
          /\ sent'[q.tasks[i].id] = sent[q.tasks[i].id] + 1

C6_ScenarioBOrdering == [](C6_NotBeforeResult) /\ [][C6_SentOnResult]_vars

\* t1 then t2 were enqueued with e1 bound; t1's result arrived and its
\* dispatch cycle sent t2
C6_Witness ==
  /\ agents["shell"] = "e1"
  /\ enqueued = [id \in Ids |-> IF id = "t3" THEN 0 ELSE 1]
  /\ rlast.op = "result"
  /\ rlast.id = "t1"
  /\ rlast.out = "sent"
  /\ rlast.dq = Task("t2", "shell", <<"t1">>, Fn)
  /\ rlast.to = "e1"

(***************************************************************************)
(* C7: Scenario B params. A task submitted with a resolver as params is     *)
(* emitted to the endpoint with params computed by the resolver from the    *)
(* recorded result data of its dependencies, not with the resolver itself.  *)
(***************************************************************************)
C7_ResolvedParams ==
  rlast.out = "sent" =>
    sockets[rlast.to][Len(sockets[rlast.to])].params =
      resolveParams(rlast.dq, taskResults)

(***************************************************************************)
(* C8: plan completion is never early. For a plan whose stream emits a      *)
(* subtask X without dependencies and then a subtask Y depending on X,      *)
(* executePlan's promise is not settled, and processTask has not returned   *)
(* 'Plan executed', unless TaskResults are recorded for both X and Y.       *)
(***************************************************************************)
\* emitted[i] is an X and emitted[j] a Y of the claim
XThenY(i, j) ==
  /\ i < j
  /\ emitted[i].dependencies = <<>>
  /\ emitted[i].id \in Range(emitted[j].dependencies)

PlanExecuted == ptResult = Result(Job, TRUE, "Plan executed")

C8_PlanNotEarly ==
  \A i, j \in 1..Len(emitted) :
    (XThenY(i, j) /\ (settled \/ PlanExecuted)) =>
      /\ aTaskResults[emitted[i].id] # NoResult
      /\ aTaskResults[emitted[j].id] # NoResult

\* X and then Y have been emitted and handled by processItem, no result is
\* recorded for either, and the promise is not settled
C8_Witness ==
  /\ Len(emitted) = 2
  /\ XThenY(1, 2)
  /\ aTaskResults[emitted[1].id] = NoResult
  /\ aTaskResults[emitted[2].id] = NoResult
  /\ emitted[1] \in Range(aTaskQueue.tasks)
  /\ plast.resolved \in Range(planQueue.tasks)
  /\ ~settled

(***************************************************************************)
(* C9: plan execution terminates. Once executePlan has subscribed to the    *)
(* plan's stream, its promise is eventually resolved, for every plan that   *)
(* emits finitely many subtasks in its synchronous pass, subtasks with      *)
(* dependencies included. (A promise rejected by a throwing resolver also  *)
(* ends the execution; that path is the subject of C16.)                   *)
(***************************************************************************)
C9_PlanTerminates == (pc = "emit") ~> (settled \/ pc = "rejected")

(***************************************************************************)
(* C10: param resolution order. When processItem resolves a SubTask whose   *)
(* params is a resolver, the resolver's argument list has one entry per     *)
(* declared dependency, the i-th being the recorded result data of the i-th *)
(* listed dependency id, and the task enqueued is the subtask with params   *)
(* replaced by the resolver's return value.                                  *)
(***************************************************************************)
C10_ParamResolutionOrder ==
  (pc = "flush" /\ plast.item.params = Fn) =>
    LET deps == plast.item.dependencies
        args == plast.resolved.params.args
    IN /\ plast.resolved.params.kind = "resolved"
       /\ Len(args) = Len(deps)
       /\ \A i \in 1..Len(deps) : args[i] = dataOf(aTaskResults[deps[i]])
       /\ plast.resolved = [plast.item EXCEPT !.params = Params("resolved", args)]
       /\ \/ plast.resolved \in Range(planQueue.tasks)
          \/ plast.resolved \in Range(aTaskQueue.tasks)

\* the subtask with dependencies <<t2, t1>> was resolved with both results
\* recorded: its arguments are the data of t2, then the data of t1
C10_Witness ==
  /\ pc = "flush"
  /\ plast.item = Task("t3", "shell", <<"t2", "t1">>, Fn)
  /\ aTaskResults["t1"].ok
  /\ aTaskResults["t2"].ok
  /\ plast.resolved.params = Params("resolved", <<"t2", "t1">>)

(***************************************************************************)
(* C19: no double-dispatch in the queue. Whatever enqueue, markCompleted   *)
(* and dequeue calls came before, two consecutive dequeue calls never      *)
(* return the same task id.                                                 *)
(***************************************************************************)
C19_NoDoubleDequeue ==
  [][ (/\ qlast.op = "dequeue" /\ qlast.ret # NoTask
       /\ qlast'.op = "dequeue" /\ qlast'.ret # NoTask)
      => qlast'.ret.id # qlast.ret.id ]_vars

(***************************************************************************)
(* C20: clear resets everything. Right after clear() isEmpty() is true,    *)
(* size() is 0 and the completed and in-flight sets are empty; and a task  *)
(* returned by dequeue or peek has every dependency marked completed since *)
(* the last clear, so a task depending on an id completed only before the  *)
(* clear is not returned until that id is marked completed again.          *)
(***************************************************************************)
C20_ClearResets ==
  /\ qlast.op = "clear" =>
       /\ isEmpty(rq)
       /\ size(rq) = 0
       /\ rq.completed = {}
       /\ rq.processing = {}
  /\ (qlast.op \in {"dequeue", "peek"} /\ qlast.ret # NoTask) =>
       Range(qlast.ret.dependencies) \subseteq qsince

\* t1 was marked completed, then the queue was cleared, then a task depending
\* on t1 was enqueued, and dequeue returned nothing
C20_Witness ==
  /\ "t1" \in qmarked
  /\ qsince = {}
  /\ rq.tasks = <<Task("t2", "shell", <<"t1">>, Plain)>>
  /\ qlast = QCall("dequeue", "", NoTask)

(***************************************************************************)
(* C12: results from a removed endpoint are dropped. When a result is      *)
(* emitted on the channel of an endpoint that is no longer bound for its   *)
(* key (unregistered, or replaced by a later registration), the result map *)
(* and the queue's completed set stay as they were, nothing is published   *)
(* and no dispatch cycle runs.                                              *)
(***************************************************************************)
\* a result message left endpoint e's channel in this step
ResultFrom(e) == Len(sockets'[e]) < Len(sockets[e])

C12_RemovedEndpointDropped ==
  [][ \A e \in Endpoints :
        (ResultFrom(e) /\ agents[meta(e)] # e) =>
          /\ taskResults' = taskResults
          /\ taskQueue' = taskQueue
          /\ rlast'.pub = <<>>
          /\ rlast'.dq = NoTask ]_vars

(***************************************************************************)
(* C13: completion is failure-agnostic. When a bound endpoint returns a    *)
(* failure TaskResult for id, the Router records it and marks id completed *)
(* (and no longer in flight) as for a success: every queued task that was  *)
(* waiting only for id is eligible afterwards, and the dispatch cycle of   *)
(* the event takes the first eligible task.                                 *)
(***************************************************************************)
C13_FailureCompletes ==
  [][ \A e \in Endpoints :
        (/\ ResultFrom(e)
         /\ agents[meta(e)] = e
         /\ ~rlast'.pub[1].ok) =>
          LET id == rlast'.id
              q == markCompleted(taskQueue, id)
          IN /\ rlast'.pub[1].id = id
             /\ \/ taskResults'[id] = rlast'.pub[1]
                \/ rlast'.out = "fail" /\ rlast'.dq.id = id
             /\ id \in taskQueue'.completed
             /\ id \notin taskQueue'.processing \/ rlast'.dq.id = id
             /\ \A i \in 1..Len(taskQueue.tasks) :
                  (/\ id \in Range(taskQueue.tasks[i].dependencies)
                   /\ Range(taskQueue.tasks[i].dependencies) \ {id}
                        \subseteq taskQueue.completed)
                  => /\ depsSatisfied(taskQueue.tasks[i], taskQueue'.completed)
                     /\ rlast'.dq = q.tasks[findIndex(q)] ]_vars

\* e1, bound for "shell", answered t1 with a failure; the dispatch cycle of
\* that event sent t2, which depends on t1
C13_Witness ==
  /\ agents["shell"] = "e1"
  /\ rlast.op = "result"
  /\ rlast.id = "t1"
  /\ rlast.pub = <<Result("t1", FALSE, "exit 1")>>
  /\ taskResults["t1"] = Result("t1", FALSE, "exit 1")
  /\ rlast.out = "sent"
  /\ rlast.dq = Task("t2", "shell", <<"t1">>, Fn)
  /\ rlast.to = "e1"

(***************************************************************************)
(* C14: recording any TaskResult completes the task. Every id that has a   *)
(* TaskResult in the result map, the synthetic 'no endpoint' failure       *)
(* included, is in the queue's completed set and not in its in-flight set. *)
(***************************************************************************)
C14_RecordedIsCompleted ==
  \A id \in Ids :
    taskResults[id] # NoResult =>
      /\ id \in taskQueue.completed
      /\ id \notin taskQueue.processing

(***************************************************************************)
(* C15: capability isolation. With the "llm" worker silent and the "shell" *)
(* workers answering every task, a queued "shell" task whose dependencies  *)
(* are "shell" tasks that have completed is eventually taken out of the    *)
(* queue and sent, once an endpoint is bound for "shell".                   *)
(***************************************************************************)
\* the shell tasks of RTasks; their only dependency, t1, is a shell task
ShellTasks == {t \in RTasks : t.executor = "shell"}

C15_CapabilityIsolation ==
  \A t \in ShellTasks :
    (/\ t \in Range(taskQueue.tasks)
     /\ Range(t.dependencies) \subseteq taskQueue.completed
     /\ agents["shell"] # NoAgent)
    ~> (t \notin Range(taskQueue.tasks))

(***************************************************************************)
(* C16: subtask error isolation. When resolving a subtask throws inside    *)
(* executePlan, a failure TaskResult is recorded for that subtask's id,    *)
(* the plan is not aborted (its promise is not rejected) and the error     *)
(* does not come back as the failure of the task processTask was given.    *)
(***************************************************************************)
\* the resolver of the last subtask processItem handled threw
ResolverThrew == plast.item.params = Strict /\ plast.resolved = NoTask

C16_SubtaskErrorIsolation ==
  ResolverThrew =>
    /\ aTaskResults[plast.item.id] # NoResult
    /\ ~aTaskResults[plast.item.id].ok
    /\ pc # "rejected"
    /\ ~(pc = "returned" /\ ~ptResult.ok)

(***************************************************************************)
(* C17: execution errors become results. processTask always returns a      *)
(* TaskResult with the id of its task; when executeTask rejects, a failure *)
(* carrying the error; when executeTask resolves with a value that is not  *)
(* a Plan, a success carrying that value.                                   *)
(***************************************************************************)
C17_ErrorsBecomeResults ==
  pc = "returned" =>
    /\ ptResult.id = Job
    /\ response.how = "rejected" => ptResult = Result(Job, FALSE, response.val)
    /\ (response \in PlainResponses) => ptResult = Result(Job, TRUE, response.val)

(***************************************************************************)
(* C11: disconnect fails fast. Whatever connect, register and disconnect   *)
(* events came before (workers sharing a worker id or a capability key     *)
(* included), once a registered connection is closed the Router holds no   *)
(* binding to its proxy and sends it no task; and a task dispatched for    *)
(* its capability while nothing is bound for it gets the 'no endpoint'     *)
(* failure result.                                                           *)
(***************************************************************************)
C11_DisconnectFailsFast ==
  [][ \A e \in Endpoints :
        (conn'[e] = "closed" /\ e \in listening) =>
          /\ agents'[meta(e)] # e
          /\ Len(sockets'[e]) <= Len(sockets[e])
          /\ (/\ enqueued' # enqueued
              /\ rlast'.dq # NoTask
              /\ rlast'.dq.executor = meta(e)
              /\ agents[meta(e)] = NoAgent)
             => /\ rlast'.out = "fail"
                /\ taskResults'[rlast'.dq.id] =
                     Result(rlast'.dq.id, FALSE, NoAgentError) ]_vars

(***************************************************************************)
(* C18: malformed submissions never enter the queue. A POST /tasks body    *)
(* lacking id, executor or params is answered with an error and leaves the *)
(* queue, the result map and the bindings as they were, with no dispatch   *)
(* cycle; every other body is enqueued exactly once.                        *)
(***************************************************************************)
\* the step is a POST /tasks request
PostStep == req' # req \/ enqueued' # enqueued

Rejected ==
  /\ req'.status = 400
  /\ UNCHANGED <<taskQueue, taskResults, agents, sockets, sent, rlast, enqueued>>

EnqueuedOnce ==
  /\ req'.status = 200
  /\ enqueued' = [enqueued EXCEPT ![req'.body.id] = @ + 1]
  /\ Len(taskQueue'.tasks) + (IF rlast'.dq = NoTask THEN 0 ELSE 1)
       = Len(taskQueue.tasks) + 1
  /\ req'.body \in Range(taskQueue'.tasks) \/ rlast'.dq = req'.body

Lacking(body) ==
  body.id = "" \/ body.executor = "" \/ body.params = Absent

C18_MalformedRejected ==
  [][ PostStep =>
        IF Lacking(req'.body) THEN Rejected ELSE EnqueuedOnce ]_vars

\* C18 as the code has it: a body is rejected when id, executor or params is
\* absent or falsy (params 0 is rejected although present); a body with all
\* three truthy is enqueued exactly once
LackingOrFalsy(body) == Lacking(body) \/ body.params = Zero

C18_FalsyRejected ==
  [][ PostStep =>
        IF LackingOrFalsy(req'.body) THEN Rejected ELSE EnqueuedOnce ]_vars

\* with t2 waiting in the queue for t1, a body without params was rejected
C18_Witness ==
  /\ req = Request(Task("t1", "shell", <<>>, Absent), 400)
  /\ taskQueue.tasks = <<Task("t2", "shell", <<"t1">>, Plain)>>
  /\ Count(enqueued) = 1

(***************************************************************************)
(* C21: markCompleted is idempotent. From every queue state, calling       *)
(* markCompleted(id) a second time leaves the task list, the completed set *)
(* and the in-flight set as the first call left them, and so the results   *)
(* of dequeue, peek, size and isProcessing.                                 *)
(***************************************************************************)
C21_MarkCompletedIdempotent ==
  \A id \in Ids :
    LET once == markCompleted(rq, id)
        twice == markCompleted(once, id)
    IN /\ twice.tasks = once.tasks
       /\ twice.completed = once.completed
       /\ twice.processing = once.processing
       /\ dequeue(twice) = dequeue(once)
       /\ peek(twice) = peek(once)
       /\ size(twice) = size(once)
       /\ \A x \in Ids : isProcessing(twice, x) = isProcessing(once, x)

\* markCompleted(t1) was just called on a queue that had dequeued t1 and
\* holds a task waiting for t1
C21_Witness ==
  /\ qlast = QCall("markCompleted", "t1", NoTask)
  /\ "t1" \in rq.completed
  /\ rq.tasks = <<Task("t2", "shell", <<"t1">>, Plain)>>
  /\ rq.processing = {}

(***************************************************************************)
(* C22: selection order. dequeue returns the earliest-enqueued task among  *)
(* those whose dependencies are all completed (none when there is no such  *)
(* task); unsatisfied tasks in front of it do not prevent that, and the    *)
(* tasks left in the queue keep their relative order.                       *)
(***************************************************************************)
\* every dependency of task t is in the set done
Ready(t, done) == Range(t.dependencies) \subseteq done

\* the sequence seq without its i-th element
Without(seq, i) == SubSeq(seq, 1, i - 1) \o SubSeq(seq, i + 1, Len(seq))

C22_SelectionOrder ==
  [][ qlast'.op = "dequeue" =>
        IF \E i \in 1..Len(rq.tasks) : Ready(rq.tasks[i], rq.completed)
        THEN \E i \in 1..Len(rq.tasks) :
               /\ Ready(rq.tasks[i], rq.completed)
               /\ \A j \in 1..(i - 1) : ~Ready(rq.tasks[j], rq.completed)
               /\ qlast'.ret = rq.tasks[i]
               /\ rq'.tasks = Without(rq.tasks, i)
        ELSE qlast'.ret = NoTask /\ rq'.tasks = rq.tasks ]_vars

\* dequeue passed over two tasks waiting for t1 and returned the third task
C22_Witness ==
  /\ qlast.op = "dequeue"
  /\ qlast.ret = Task("t2", "shell", <<>>, Plain)
  /\ rq.tasks = <<Task("t2", "shell", <<"t1">>, Plain),
                  Task("t3", "shell", <<"t1", "t2">>, Plain)>>
  /\ "t1" \notin rq.completed

(***************************************************************************)
(* C30: peek is a non-destructive dequeue. peek returns the task the next  *)
(* dequeue would return (nothing when dequeue would return nothing) and    *)
(* leaves the task list, the completed set and the in-flight set as they   *)
(* were.                                                                     *)
(***************************************************************************)
C30_PeekNonDestructive ==
  [][ qlast'.op = "peek" =>
        /\ rq' = rq
        /\ qlast'.ret = dequeue(rq').ret ]_vars

\* peek returned a ready task from behind a task that is waiting for t1
C30_Witness ==
  /\ qlast.op = "peek"
  /\ qlast.ret = Task("t2", "shell", <<>>, Plain)
  /\ Len(rq.tasks) = 2
  /\ rq.tasks[1] = Task("t2", "shell", <<"t1">>, Plain)
  /\ rq.tasks[2] = qlast.ret

(***************************************************************************)
(* C23: exactly one TaskResult per dispatched task. Once the result map    *)
(* holds a TaskResult for a task id, no later event replaces it; stated    *)
(* here for ids that were submitted once and sent once, so that a          *)
(* replacement can only come from a further result message for the id.     *)
(***************************************************************************)
C23_ResultNeverReplaced ==
  [][ \A id \in Ids :
        (enqueued'[id] = 1 /\ sent[id] = 1 /\ taskResults[id] # NoResult)
          => taskResults'[id] = taskResults[id] ]_vars

(***************************************************************************)
(* C28: one dispatch per triggering event. An enqueueTask call or a result *)
(* arrival takes at most one task out of the queue and sends or            *)
(* routing-fails at most one task, also when several queued tasks are      *)
(* ready; the other ready tasks are still queued after the event.          *)
(***************************************************************************)
\* the tasks queued once the event has pushed its task, if it pushes one
QueuedAtCycle == Len(taskQueue.tasks) + IF rlast'.op = "enqueueTask" THEN 1 ELSE 0

\* the publications of the event's dispatch cycle: all but the arrived result
CyclePubs == Len(rlast'.pub) - IF rlast'.op = "result" THEN 1 ELSE 0

C28_OneDispatchPerEvent ==
  [][ rlast'.op \in {"enqueueTask", "result"} =>
        /\ Len(taskQueue'.tasks) >= QueuedAtCycle - 1
        /\ (Count(sent') - Count(sent)) + CyclePubs <= 1
        /\ Count(sent') >= Count(sent)
        /\ Len(taskQueue'.tasks) = QueuedAtCycle - 1
             <=> (Count(sent') - Count(sent)) + CyclePubs = 1 ]_vars

\* the result of t1 made two queued shell tasks ready; the event sent the
\* first and the second is still queued and ready
C28_Witness ==
  /\ rlast.op = "result"
  /\ rlast.id = "t1"
  /\ rlast.out = "sent"
  /\ rlast.dq = Task("t2", "shell", <<"t1">>, Fn)
  /\ peek(taskQueue) = Task("t3", "shell", <<"t1">>, Plain)
  /\ agents["shell"] # NoAgent

(***************************************************************************)
(* C27: result handling order. When a result for id arrives, the Router    *)
(* stores it in the result map, then marks id completed in the queue, then *)
(* calls the subscriber, and only then runs its dispatch cycle: when the   *)
(* subscriber is called, getTaskResult(id) already returns the result and  *)
(* id is completed, while nothing has yet been dequeued or sent; a         *)
(* dependent of id is sent after that call, and a routing failure of the   *)
(* cycle is published after the arrived result.                            *)
(***************************************************************************)
C27_ResultHandlingOrder ==
  [][ (rlast'.op = "result" /\ resultEmitter) =>
        /\ rlast'.pub # <<>>
        /\ rlast'.pub[1].id = rlast'.id
        /\ notice'.id = rlast'.id
        /\ notice'.status = rlast'.pub[1]
        /\ rlast'.id \in notice'.completed
        /\ notice'.tasks = taskQueue.tasks
        /\ notice'.sent = sent
        /\ rlast'.out = "sent" =>
             /\ \E i \in 1..Len(notice'.tasks) : notice'.tasks[i] = rlast'.dq
             /\ sent'[rlast'.dq.id] = notice'.sent[rlast'.dq.id] + 1
        /\ rlast'.out = "fail" =>
             /\ Len(rlast'.pub) = 2
             /\ rlast'.pub[2] = Result(rlast'.dq.id, FALSE, NoAgentError) ]_vars

\* the result of t1 arrived; the subscriber was called with it while t2, which
\* depends on t1, was still queued and unsent, and the cycle then sent t2
C27_Witness ==
  /\ rlast.op = "result"
  /\ rlast.id = "t1"
  /\ notice.status = Result("t1", TRUE, "hi")
  /\ getTaskResult("t1") = notice.status
  /\ notice.tasks = <<Task("t2", "shell", <<"t1">>, Fn)>>
  /\ notice.sent["t2"] = 0
  /\ rlast.out = "sent"
  /\ rlast.dq = Task("t2", "shell", <<"t1">>, Fn)
  /\ sent["t2"] = 1

(***************************************************************************)
(* C24: abandonment on disconnect. A task emitted to a socket that has     *)
(* closed before answering it stays in that state for ever: the disconnect *)
(* and any later registration leave the queue, the result map, the         *)
(* channels and the send counters as they were, and (for an id submitted   *)
(* once) the id was sent once, is in flight and not completed, has no      *)
(* TaskResult, and no task depending on it has been sent or has a result,  *)
(* also when a socket of the same capability has registered since.         *)
(***************************************************************************)
\* a task with this id was emitted to a socket that closed without answering
Abandoned(id) ==
  \E e \in Endpoints :
    /\ conn[e] = "closed"
    /\ \E i \in 1..Len(sockets[e]) : sockets[e][i].id = id

C24_StaysInFlight ==
  \A id \in Ids :
    (Abandoned(id) /\ enqueued[id] = 1) =>
      /\ sent[id] = 1
      /\ taskResults[id] = NoResult
      /\ id \notin arrived
      /\ isProcessing(taskQueue, id)
      /\ id \notin taskQueue.completed
      /\ \A t \in ServerTasks :
           id \in Range(t.dependencies) =>
             sent[t.id] = 0 /\ taskResults[t.id] = NoResult

C24_NoRetryNoFailure ==
  /\ \A id \in Ids : Abandoned(id) => Abandoned(id)'
  /\ \A e \in Endpoints :
       \/ conn[e] # "closed" /\ conn'[e] = "closed"
       \/ registrations'[e] > registrations[e]
       => UNCHANGED <<taskQueue, taskResults, sockets, sent>>

C26_OtherBindingKept ==
  [][ \A e \in Endpoints :
        (conn[e] # "closed" /\ conn'[e] = "closed") =>
          \A k \in Keys :
            (agents[k] \notin {NoAgent, e} /\ conn[agents[k]] = "registered")
              => agents'[k] = agents[k] ]_vars

(***************************************************************************)
(* C29: connection state machine. A connection moves only along            *)
(* connected -> registered -> closed (or connected -> closed); a           *)
(* connection makes at most one proxy and one registration, so each result *)
(* message it delivers is handled by the Router once; a registration       *)
(* leaves its proxy bound under its capability key; closed is terminal;    *)
(* and a disconnect before registration changes no proxy and no binding.   *)
(***************************************************************************)
ConnMoves ==
  { <<"none", "connected">>, <<"connected", "registered">>,
    <<"registered", "closed">>, <<"connected", "closed">> }

\* how often the last result event published the result that arrived
HandledTimes ==
  Cardinality({i \in 1..Len(rlast.pub) :
                 rlast.pub[i].id = rlast.id /\ rlast.pub[i].val # NoAgentError})

C29_ConnectionStateMachine ==
  [][ /\ \A e \in Endpoints :
           /\ conn'[e] # conn[e] => <<conn[e], conn'[e]>> \in ConnMoves
           /\ registrations'[e] <= 1
           /\ registrations'[e] > registrations[e] =>
                conn'[e] = "registered" /\ agents'[meta(e)] = e
           /\ conn[e] = "closed" =>
                conn'[e] = "closed" /\ registrations'[e] = registrations[e]
           /\ (conn[e] = "connected" /\ conn'[e] = "closed") =>
                UNCHANGED <<agentProxies, agents>>
      /\ (rlast'.op = "result" /\ resultEmitter) => HandledTimes' = 1 ]_vars

(***************************************************************************)
(* C25: Builder value. A terminal call (the builder itself, or the query   *)
(* member get) made after the transition calls t1(p1) ... tn(pn) returns   *)
(* the merge of p1 .. pn from left to right: every property has the value  *)
(* of the last patch that has it, and only properties of some patch are    *)
(* present; with no transition call it returns undefined.                  *)
(***************************************************************************)
\* the patch a call merges into the state
PatchOf(call) ==
  IF call.key \in {"with", "merge"} THEN call.patch.props
  ELSE [k \in PKeys |-> IF k = call.key THEN "true" ELSE Missing]

\* the calls of the chain whose patch has the property k
Having(chain, k) == {i \in 1..Len(chain) : PatchOf(chain[i])[k] # Missing}

C25_BuilderValue ==
  /\ (value.via # "" /\ value.chain = <<>>) => value.ret = Undefined
  /\ (value.via # "" /\ value.chain # <<>>) =>
       /\ value.ret.defined
       /\ \A k \in PKeys :
            IF Having(value.chain, k) = {}
            THEN value.ret.props[k] = Missing
            ELSE \E i \in Having(value.chain, k) :
                   /\ \A j \in Having(value.chain, k) : j <= i
                   /\ value.ret.props[k] = PatchOf(value.chain[i])[k]

\* noConfigBuilder.with({test: 'text'}).with({test: 1, number: 1})() returned
\* {test: 1, number: 1}
C25_Witness ==
  /\ value.via = "()"
  /\ Len(value.chain) = 2
  /\ value.chain[1].key = "with"
  /\ value.chain[1].patch.props["test"] = "text"
  /\ value.chain[2].patch.props["test"] = "1"
  /\ value.chain[2].patch.props["number"] = "1"
  /\ value.ret.props["test"] = "1"
  /\ value.ret.props["number"] = "1"

(***************************************************************************)
(* C31: silent stall instead of error. enqueue accepts every task (also    *)
(* one that depends on an id nobody submits, on its own id, or on a task   *)
(* that depends on it); a queued task with a dependency that is not in the *)
(* completed set is not returned by dequeue or peek and stays in the task  *)
(* list, counted by size, over every operation; and when no queued task is *)
(* ready dequeue returns nothing and changes nothing.                      *)
(* C31_StalledForever states this for every operation, as the claim does;  *)
(* C31_StalledUntilClear excepts clear(), which empties the task list.     *)
(***************************************************************************)
\* the tasks of seq with a dependency outside done, in queue order
Parked(seq, done) == SelectSeq(seq, LAMBDA t : ~Ready(t, done))

\* sequence a is the beginning of sequence b
IsPrefix(a, b) == Len(a) <= Len(b) /\ a = SubSeq(b, 1, Len(a))

\* enqueue appended a task with the id it was called with
Accepted ==
  /\ Len(rq'.tasks) = Len(rq.tasks) + 1
  /\ SubSeq(rq'.tasks, 1, Len(rq.tasks)) = rq.tasks
  /\ rq'.tasks[Len(rq'.tasks)].id = qlast'.arg

\* dequeue and peek return no parked task, and dequeue finding none is a no-op
NeverReturned ==
  /\ qlast'.op \in {"dequeue", "peek"} =>
       qlast'.ret = NoTask \/ Ready(qlast'.ret, rq.completed)
  /\ (qlast'.op = "dequeue" /\ Parked(rq.tasks, rq.completed) = rq.tasks) =>
       qlast'.ret = NoTask /\ rq' = rq

\* the tasks parked after the step were not lost by it: they are still
\* queued, in order, and size counts them
StillParked ==
  /\ IsPrefix(Parked(rq.tasks, rq'.completed), Parked(rq'.tasks, rq'.completed))
  /\ size(rq') >= Len(Parked(rq.tasks, rq'.completed))

C31_StalledForever ==
  [][ /\ qlast'.op = "enqueue" => Accepted
      /\ NeverReturned
      /\ StillParked ]_vars

C31_StalledUntilClear ==
  [][ /\ qlast'.op = "enqueue" => Accepted
      /\ NeverReturned
      /\ qlast'.op # "clear" => StillParked ]_vars

\* a self-dependent task and the two tasks of a cycle are queued, and dequeue
\* has just returned nothing
C31_Witness ==
  /\ qlast = QCall("dequeue", "", NoTask)
  /\ size(rq) = 3
  /\ Task("t3", "shell", <<"t3">>, Plain) \in Range(rq.tasks)
  /\ Task("t1", "shell", <<"t2">>, Plain) \in Range(rq.tasks)
  /\ Task("t2", "shell", <<"t1">>, Plain) \in Range(rq.tasks)
  /\ rq.completed = {}

(***************************************************************************)
(* C36: in-flight and completed are disjoint. In every reachable queue     *)
(* state no id is in the in-flight set and in the completed set at once,   *)
(* and no id of the in-flight set is the id of a task in the task list.    *)
(***************************************************************************)
C36_InFlightDisjoint ==
  /\ rq.processing \cap rq.completed = {}
  /\ \A i \in 1..Len(rq.tasks) : rq.tasks[i].id \notin rq.processing

(***************************************************************************)
(* C32: completion needs the deferred check. executePlan's promise is not  *)
(* resolved before the deferred check has run, also for a plan that emits  *)
(* nothing or whose scoped queue is empty after the synchronous pass; and  *)
(* every resolve() call is made in a state where the exhaustion flag is    *)
(* set, the open-subscription counter is zero and the scoped queue is      *)
(* empty.                                                                    *)
(***************************************************************************)
C32_NotBeforeCheck ==
  /\ streamEnded => timer = "fired"
  /\ settled => (timer = "fired" /\ streamEnded)

C32_ResolveState ==
  resolveCalls' > resolveCalls =>
    /\ streamEnded'
    /\ activeStreams' = 0
    /\ planQueue'.tasks = <<>>

C32_DeferredCheck == [](C32_NotBeforeCheck) /\ [][C32_ResolveState]_vars

\* the plan emitted nothing; the promise was resolved by the deferred check
C32_Witness ==
  /\ response = PlanResponse
  /\ plan = <<>>
  /\ timer = "fired"
  /\ streamEnded
  /\ resolveCalls = 1

(***************************************************************************)
(* C34: nested plans share the scoped queue. A subtask emitted at any      *)
(* nesting depth is resolved and appended to the one scoped queue of the   *)
(* executePlan call, in emission order; a task leaves the scoped queue     *)
(* only by being appended to the agent's task queue; and completion is     *)
(* reported only when the scoped queue is empty.                           *)
(***************************************************************************)
\* the step is processItem handling a SubTask
Emits == Len(emitted') = Len(emitted) + 1 /\ pc' = "flush"

C34_SharedScopedQueue ==
  [][ /\ Emits =>
           /\ plast'.item = emitted'[Len(emitted')]
           /\ plast'.resolved.id = plast'.item.id
           /\ plast'.resolved.dependencies = plast'.item.dependencies
           /\ plast'.item.params = Fn => plast'.resolved.params.kind = "resolved"
           /\ plast'.item.params = Plain => plast'.resolved.params = Plain
           /\ planQueue'.tasks = planQueue.tasks \o <<plast'.resolved>>
      /\ Len(planQueue'.tasks) < Len(planQueue.tasks) =>
           /\ Len(planQueue'.tasks) = Len(planQueue.tasks) - 1
           /\ \E i \in 1..Len(planQueue.tasks) :
                /\ planQueue'.tasks = Without(planQueue.tasks, i)
                /\ aTaskQueue'.tasks = aTaskQueue.tasks \o <<planQueue.tasks[i]>>
      /\ resolveCalls' > resolveCalls => planQueue'.tasks = <<>> ]_vars

\* a plan nested twice emitted t1 and then, one level up, a second t1; both
\* went through the scoped queue into the agent's queue, the second at depth 2
C34_Witness ==
  /\ plan = <<PlanItem(<<PlanItem(<<SubTaskItem(Task("t1", "shell", <<>>, Plain))>>),
                         SubTaskItem(Task("t1", "shell", <<>>, Plain))>>)>>
  /\ Len(emitted) = 2
  /\ Len(stack) = 2
  /\ pc = "emit"
  /\ planQueue.tasks = <<>>
  /\ aTaskQueue.tasks = <<Task("t1", "shell", <<>>, Plain), Task("t1", "shell", <<>>, Plain)>>

(***************************************************************************)
(* C33: open-subscription counter. The counter is never negative and      *)
(* equals the number of nested subscriptions being attached, at any depth  *)
(* (so it is zero whenever none is being attached), and no resolve() call  *)
(* is made while a nested subscription is being attached.                  *)
(***************************************************************************)
\* nested on() calls that have been entered and have not returned
Attaching == IF stack = <<>> THEN 0 ELSE Len(stack) - 1

C33_CounterBalanced ==
  /\ [](activeStreams >= 0 /\ activeStreams = Attaching)
  /\ [][resolveCalls' > resolveCalls => Attaching' = 0]_vars

(***************************************************************************)
(* C38: late emissions are not lost. A subtask the stream emits after      *)
(* plan.subtasks.on has returned (after the promise has resolved included) *)
(* is resolved and ends up in the agent's task queue; and processTask      *)
(* resumes from executePlan once, however many resolve() calls are made.   *)
(***************************************************************************)
\* executePlan has resolved, the listener was called after that and
\* processItem is about to handle a SubTask
LateSubTask ==
  /\ settled
  /\ pc = "emit"
  /\ stack # <<>>
  /\ Top.i <= Len(Top.items)
  /\ Top.items[Top.i].kind = "task"

\* the listener has returned and the subtask it handled last is in the
\* agent's queue
Forwarded ==
  /\ pc \in {"loop", "returned"}
  /\ plast.resolved # NoTask
  /\ plast.resolved \in Range(aTaskQueue.tasks)

C38_LateNotLost ==
  /\ LateSubTask ~> Forwarded
  /\ [][ptResult # NoResult => ptResult' = ptResult]_vars

(***************************************************************************)
(* C37: only dispatched work unblocks dependents. In the Router an id      *)
(* enters the completed set of the queue only in a result event for an id  *)
(* that a dispatch cycle has dequeued and sent to an endpoint before; and  *)
(* a result event naming an id that was never sent dispatches no task      *)
(* that depends on that id.                                                *)
(***************************************************************************)
C37_OnlyDispatchedUnblocks ==
  [][ /\ \A id \in taskQueue'.completed \ taskQueue.completed :
           /\ rlast'.op = "result"
           /\ rlast'.id = id
           /\ sent[id] > 0
      /\ (rlast'.op = "result" /\ sent[rlast'.id] = 0 /\ rlast'.dq # NoTask)
           => rlast'.id \notin Range(rlast'.dq.dependencies) ]_vars

(***************************************************************************)
(* C39: builder transitions do not mutate. A transition member called on   *)
(* a builder returns a builder that did not exist before, whose value is   *)
(* the member applied to the receiver's value, and leaves every existing   *)
(* builder (the receiver included) and its value as they were; a terminal  *)
(* call changes no builder and returns what the first terminal call on the *)
(* same builder returned; and the value of every builder is the value of   *)
(* its own chain of calls, whatever other chains were started from the     *)
(* builders it was made from.                                              *)
(***************************************************************************)
C39_TransitionsDoNotMutate ==
  /\ [][ blast'.ret # 0 =>
          /\ blast'.ret \notin 1..Len(objects)
          /\ blast'.ret \in 1..Len(objects')
          /\ \A i \in 1..Len(objects) :
               /\ objects'[i] = objects[i]
               /\ stateOf(objects', i) = stateOf(objects, i)
          /\ stateOf(objects', blast'.ret)
               = member(objects'[blast'.ret].call, stateOf(objects, blast'.recv)) ]_vars
  /\ [][ (blast'.op # "" /\ blast'.ret = 0) =>
          /\ objects' = objects
          /\ seen[blast'.recv].calls > 0 => blast'.val = seen[blast'.recv].first ]_vars
  /\ [](\A i \in 1..Len(objects) :
          stateOf(objects, i) = getState(ChainOf(objects, i)))

\* two chains were started from the builder Builder() returned, their values
\* differ, and the builder itself was called before and after: both calls
\* returned undefined
C39_Witness ==
  /\ Len(objects) = 3
  /\ objects[2].parent = 1
  /\ objects[3].parent = 1
  /\ stateOf(objects, 2) # stateOf(objects, 3)
  /\ seen[1] = Seen(2, Undefined)
  /\ seen[2].calls > 0
  /\ blast = BEvent("()", 1, 0, Undefined)

(***************************************************************************)
(* C35: the worker answers every task exactly once. For each task message  *)
(* received, the worker emits no task-result message while the command     *)
(* runs and exactly one once it has ended; the message carries the id of   *)
(* that task, is a success with the output if the command closed with code *)
(* 0 and a failure with the error otherwise; and the messages emitted are  *)
(* exactly these, whatever the order in which concurrent commands end.     *)
(***************************************************************************)
RECURSIVE Replies(_)
Replies(n) == IF n = 0 THEN 0 ELSE Len(wreply[n]) + Replies(n - 1)

C35_AnsweredOnce ==
  /\ \A n \in 1..MaxTaskMessages :
       /\ Len(wreply[n]) <= 1
       /\ Len(wreply[n]) = 1 <=> runs[n].promise \in {"resolved", "rejected"}
       /\ Len(wreply[n]) = 1 =>
            /\ wreply[n][1].id = runs[n].task.id
            /\ wreply[n][1] \in Range(wout)
            /\ runs[n].promise = "resolved" =>
                 /\ runs[n].child = "closed"
                 /\ wreply[n][1] = Result(runs[n].task.id, TRUE, Stdout)
            /\ runs[n].promise = "rejected" =>
                 /\ ~wreply[n][1].ok
                 /\ wreply[n][1].val \in {ExitError, SpawnError}
  /\ Len(wout) = Replies(MaxTaskMessages)

\* t1 and t2 ran concurrently: t2 was answered first with its output, t1
\* after it with the error of a child that could not be spawned and closed
\* later, while a third command is still running
C35_Witness ==
  /\ received = 3
  /\ runs[1].task.id = "t1"
  /\ runs[2].task.id = "t2"
  /\ runs[1].child = "closed"
  /\ runs[3].promise = "pending"
  /\ wout = <<Result("t2", TRUE, Stdout), Result("t1", FALSE, SpawnError)>>

====
